---------------------------- MODULE Spec2Model ----------------------------
(***************************************************************************)
(* Model of VulkanQueueRunner (ext/native/thin3d/VulkanQueueRunner.cpp/.h) *)
(* of PPSSPP: the per-frame step list, its peephole rewrites, the replay   *)
(* of the list into a command stream with layout tracking, and the render  *)
(* pass cache.                                                             *)
(*                                                                         *)
(* The step vector is a vector of pointers: it is modelled as a sequence   *)
(* of object ids (steps) over a heap of step records (heap), so that two   *)
(* slots holding the same pointer alias the same object.                   *)
(***************************************************************************)
EXTENDS Integers, Sequences, FiniteSets, TLC

VARIABLES
    steps,              \* std::vector<VKRStep *> &steps: sequence of object ids
    heap,               \* the VKRStep objects, by id
    recorded,           \* ghost: steps/heap as handed to RunSteps, and the tags then
    prev,               \* ghost: steps/heap before the rewrite pass that ran last
    pc,                 \* position inside RunSteps
    idx,                \* loop index i of the execution loop (1-based)
    hacksEnabled_,      \* VulkanQueueRunner::hacksEnabled_
    colorLayout,        \* VKRFramebuffer::color.layout, per framebuffer
    depthLayout,        \* VKRFramebuffer::depth.layout, per framebuffer
    realLayout,         \* ghost: layout each image really has, replayed from cmdlog
    mismatched,         \* ghost: images for which an emitted oldLayout was not the real one
    cmdlog,             \* ghost: the commands emitted into the command buffer
    asserts,            \* ghost: the assertions that failed (a release build goes on)
    emitted,            \* ghost: per step object, how often the loop performed it
    deleted,            \* ghost: per step object, how often delete was applied
    renderPasses_,      \* DenseHashMap<RPKey, VkRenderPass>: key -> handle
    passObjs,           \* ghost: the hardware pass objects created; the handle is the index
    deletedPasses,      \* ghost: pass handles queued for deletion, in order
    backbufferRenderPass_,   \* VulkanQueueRunner::backbufferRenderPass_
    framebufferRenderPass_,  \* VulkanQueueRunner::framebufferRenderPass_
    readbackBuffer_,    \* VkBuffer handle, 0 = VK_NULL_HANDLE
    readbackMemory_,    \* VkDeviceMemory handle, 0 = VK_NULL_HANDLE
    readbackBufferSize_,
    bufEvents,          \* ghost: creations / deletions of staging buffers and memory
    calls,              \* ghost: GetRenderPass calls since CreateDeviceObjects: key, handle
    pixels,             \* uint8_t *pixels: the caller's destination of CopyReadbackBuffer
    written,            \* ghost: the byte offsets of pixels that were stored to
    copyLog,            \* ghost: what CopyReadbackBuffer did with the staging memory
    copyCall,           \* ghost: the arguments of the CopyReadbackBuffer call made
    driverIsMali,       \* properties.driverVersion == 0xaa9c4b29
    fastLookup_,        \* TinySet: T fastLookup_[MaxFastSize], slots 0..MaxFastSize-1
    fastCount,          \* TinySet: int fastCount
    slowLookup_,        \* TinySet: std::vector<T> *slowLookup_ (allocated or nullptr)
    inserted            \* ghost: the arguments of the insert calls made on the TinySet

frameVars  == <<steps, heap, recorded, prev, pc, idx, emitted, deleted>>
layoutVars == <<colorLayout, depthLayout, realLayout, mismatched, cmdlog, asserts>>
cacheVars  == <<renderPasses_, passObjs, deletedPasses, calls,
                backbufferRenderPass_, framebufferRenderPass_>>
readbackVars == <<readbackBuffer_, readbackMemory_, readbackBufferSize_, bufEvents>>
copyVars == <<pixels, written, copyLog, copyCall>>
tinyVars == <<fastLookup_, fastCount, slowLookup_, inserted>>
vars == <<frameVars, layoutVars, cacheVars, readbackVars, copyVars, hacksEnabled_, driverIsMali,
          tinyVars>>

-----------------------------------------------------------------------------
(* Enumerations of VulkanQueueRunner.h *)

QUEUE_HACK_MGS2_ACID == 1
QUEUE_HACK_SONIC == 2
QUEUE_HACK_RENDERPASS_MERGE == 8

\* hacks & bit, for a single-bit constant
HasBit(hacks, bit) == (hacks \div bit) % 2 = 1

\* An aspect mask is modelled as the set of its VK_IMAGE_ASPECT_*_BIT bits.
HasColor(aspectMask) == "COLOR" \in aspectMask
\* a test that finds the depth aspect in every mask
HasDepthStencilAlways(aspectMask) == TRUE

HasDepthStencil(aspectMask) == "DEPTH" \in aspectMask \/ "STENCIL" \in aspectMask

VKRStepType == {"RENDER", "RENDER_SKIP", "COPY", "BLIT", "READBACK", "READBACK_IMAGE"}
VKRRenderPassAction == {"DONT_CARE", "CLEAR", "KEEP"}
VkImageLayout == {"UNDEFINED", "GENERAL", "COLOR_ATTACHMENT_OPTIMAL",
                  "DEPTH_STENCIL_ATTACHMENT_OPTIMAL", "SHADER_READ_ONLY_OPTIMAL",
                  "TRANSFER_SRC_OPTIMAL", "TRANSFER_DST_OPTIMAL", "PRESENT_SRC_KHR"}

\* VKRFramebuffer objects; "null" is the null pointer (the backbuffer).
Framebuffers == {"A", "B", "C"}
NullFb == "null"

\* Low byte of each framebuffer's address, as a VKRRenderPassAction would read it
\* through the step union (0 = DONT_CARE; an aligned address never reads as 1 or 2).
PtrLowByteAction(fb) == IF fb = "A" THEN "DONT_CARE" ELSE "INVALID"


-----------------------------------------------------------------------------
(* VKRStep and VkRenderData records *)

\* VkRenderData. a, b, c carry the payload of the union member in use:
\*   BIND_PIPELINE a = pipeline;  DRAW a = draw.count;
\*   DRAW_INDEXED a = drawIndexed.count, b = low 32 bits of drawIndexed.ibuffer
\*   (the bytes draw.count overlays);  STENCIL a, b, c = write mask, compare
\*   mask, reference;  CLEAR a = 1 iff clearMask is not empty.
\* uid is ghost: the identity of the recorded command.
Cmd(cmd, a, b, c) == [cmd |-> cmd, a |-> a, b |-> b, c |-> c, uid |-> 0]

IsDraw(c) == c.cmd \in {"DRAW", "DRAW_INDEXED"}

\* n recorded draws after one pipeline bind
RECURSIVE DrawCmds(_)
DrawCmds(n) == IF n = 0 THEN << >> ELSE Append(DrawCmds(n - 1), Cmd("DRAW", 3, 0, 0))

BoundDraws(n) == IF n = 0 THEN << >> ELSE <<Cmd("BIND_PIPELINE", 1, 0, 0)>> \o DrawCmds(n)

\* TransitionRequest
TransitionRequest(fb, targetLayout) == [fb |-> fb, targetLayout |-> targetLayout]

\* A VKRStep. The union members are laid out side by side; a step only has
\* the members of its own type set, the others hold the defaults below.
BlankStep ==
    [id |-> 0, stepType |-> "RENDER", commands |-> << >>, preTransitions |-> << >>,
     dependencies |-> {},
     framebuffer |-> NullFb, color |-> "KEEP", depth |-> "KEEP", stencil |-> "KEEP",
     clearColor |-> 0, clearDepth |-> 0, clearStencil |-> 0,
     numDraws |-> 0, numReads |-> 0, finalColorLayout |-> "UNDEFINED",
     src |-> NullFb, dst |-> NullFb, aspectMask |-> {},
     width |-> 1, height |-> 1, mipLevel |-> 0]

\* A render step that samples the framebuffers in the sequence reads: each is
\* a dependency and has a pretransition to SHADER_READ_ONLY_OPTIMAL.
PreTransitionsFor(reads) ==
    [k \in 1..Len(reads) |-> TransitionRequest(reads[k], "SHADER_READ_ONLY_OPTIMAL")]

Render(fb, action, cmds, reads, finalLayout) ==
    [BlankStep EXCEPT !.stepType = "RENDER", !.framebuffer = fb,
                      !.color = action[1], !.depth = action[2], !.stencil = action[3],
                      !.clearColor = IF action[1] = "CLEAR" THEN 7 ELSE 0,
                      !.clearDepth = IF action[2] = "CLEAR" THEN 7 ELSE 0,
                      !.clearStencil = IF action[3] = "CLEAR" THEN 7 ELSE 0,
                      !.commands = cmds,
                      !.numDraws = Cardinality({k \in 1..Len(cmds) : IsDraw(cmds[k])}),
                      !.dependencies = {reads[k] : k \in 1..Len(reads)},
                      !.preTransitions = PreTransitionsFor(reads),
                      !.finalColorLayout = finalLayout]

Copy(src, dst, aspectMask) ==
    [BlankStep EXCEPT !.stepType = "COPY", !.src = src, !.dst = dst,
                      !.aspectMask = aspectMask, !.dependencies = {src}]

Blit(src, dst, aspectMask) ==
    [BlankStep EXCEPT !.stepType = "BLIT", !.src = src, !.dst = dst,
                      !.aspectMask = aspectMask, !.dependencies = {src}]

Readback(src, aspectMask) ==
    [BlankStep EXCEPT !.stepType = "READBACK", !.src = src, !.aspectMask = aspectMask]

ReadbackImage == [BlankStep EXCEPT !.stepType = "READBACK_IMAGE"]

KEEP3 == <<"KEEP", "KEEP", "KEEP">>
CLEAR3 == <<"CLEAR", "CLEAR", "CLEAR">>

\* The object with identity id built from a template: commands get their uids.
MakeStep(t, id) ==
    [t EXCEPT !.id = id,
              !.commands = [k \in 1..Len(t.commands) |->
                               [t.commands[k] EXCEPT !.uid = 10 * id + k]]]

IsRenderType(s) == s.stepType \in {"RENDER", "RENDER_SKIP"}


SetMin(S) == CHOOSE x \in S : \A y \in S : x <= y

\* Reads of the render member of a step's union. For a step of another type the
\* bytes of its own member are read: render.framebuffer overlays copy.src and
\* blit.src (and no framebuffer address for the readbacks); render.numDraws
\* overlays srcRect.extent.width (mipLevel for READBACK_IMAGE); render.color
\* overlays the low byte of copy.dst, blit.dst or readback.src.
RenderFramebufferOf(s) ==
    CASE IsRenderType(s) -> s.framebuffer
      [] s.stepType \in {"COPY", "BLIT"} -> s.src
      [] OTHER -> "garbage"

RenderNumDrawsOf(s) ==
    CASE IsRenderType(s) -> s.numDraws
      [] s.stepType \in {"COPY", "BLIT", "READBACK"} -> s.width
      [] OTHER -> s.mipLevel

RenderColorOf(s) ==
    CASE IsRenderType(s) -> s.color
      [] s.stepType \in {"COPY", "BLIT"} -> PtrLowByteAction(s.dst)
      [] s.stepType = "READBACK" -> PtrLowByteAction(s.src)
      [] OTHER -> "DONT_CARE"

-----------------------------------------------------------------------------
(* RunSteps, first loop: final-layout normalization *)

\* a normalization with the framebuffer test inverted
NormalizeFinalLayoutOfBackbuffer(s) ==
    IF s.stepType = "RENDER" /\ s.framebuffer = NullFb /\ s.finalColorLayout = "UNDEFINED"
    THEN [s EXCEPT !.finalColorLayout = "COLOR_ATTACHMENT_OPTIMAL"]
    ELSE s

NormalizeFinalLayout(s) ==
    IF s.stepType = "RENDER" /\ s.framebuffer # NullFb /\ s.finalColorLayout = "UNDEFINED"
    THEN [s EXCEPT !.finalColorLayout = "COLOR_ATTACHMENT_OPTIMAL"]
    ELSE s

NormalizeAll(st, hp) ==
    [id \in DOMAIN hp |->
        IF \E j \in 1..Len(st) : st[j] = id THEN NormalizeFinalLayout(hp[id]) ELSE hp[id]]

(* RunSteps, second loop: push down empty clears *)

\* an empty clear test without the numReads == 0 condition
IsEmptyClearWhateverReads(s) ==
    /\ s.stepType = "RENDER"
    /\ s.numDraws = 0
    /\ s.color = "CLEAR"
    /\ s.stencil = "CLEAR"
    /\ s.depth = "CLEAR"

IsEmptyClear(s) ==
    /\ s.stepType = "RENDER"
    /\ s.numDraws = 0
    /\ s.numReads = 0
    /\ s.color = "CLEAR"
    /\ s.stencil = "CLEAR"
    /\ s.depth = "CLEAR"

\* a scan that only a Render step on the framebuffer ends
DeadClearStopsAtRenderOnly(si, sj) == si.stepType = "RENDER" /\ si.framebuffer = sj.framebuffer

\* The step at i ends the inner scan started for the empty clear sj.
DeadClearStops(si, sj) ==
    \/ si.stepType = "RENDER" /\ si.framebuffer = sj.framebuffer
    \/ si.stepType = "COPY" /\ si.src = sj.framebuffer

\* a fold that overwrites the clear values steps[i] already had
FoldClearOverwrites(si, sj) ==
    [si EXCEPT !.color = "CLEAR", !.clearColor = sj.clearColor,
               !.depth = "CLEAR", !.clearDepth = sj.clearDepth,
               !.stencil = "CLEAR", !.clearStencil = sj.clearStencil]

\* steps[i] after the clear values of sj are merged into it
FoldClear(si, sj) ==
    [si EXCEPT !.color = "CLEAR",
               !.clearColor = IF si.color # "CLEAR" THEN sj.clearColor ELSE si.clearColor,
               !.depth = "CLEAR",
               !.clearDepth = IF si.depth # "CLEAR" THEN sj.clearDepth ELSE si.clearDepth,
               !.stencil = "CLEAR",
               !.clearStencil = IF si.stencil # "CLEAR" THEN sj.clearStencil ELSE si.clearStencil]

RECURSIVE DeadClearFrom(_, _, _)
DeadClearFrom(st, hp, j) ==
    IF j > Len(st) - 1 THEN hp
    ELSE LET sj == hp[st[j]]
             stops == {i \in (j + 1)..Len(st) : DeadClearStops(hp[st[i]], sj)}
         IN IF IsEmptyClear(sj) /\ stops # {}
               /\ hp[st[SetMin(stops)]].stepType = "RENDER"
            THEN LET i == SetMin(stops)
                     folded == [hp EXCEPT ![st[i]] = FoldClear(hp[st[i]], sj)]
                 IN DeadClearFrom(st, [folded EXCEPT ![st[j]].stepType = "RENDER_SKIP"], j + 1)
            ELSE DeadClearFrom(st, hp, j + 1)

DeadClearPass(st, hp) == DeadClearFrom(st, hp, 1)

-----------------------------------------------------------------------------
(* ApplyMGSHack, first loop: copy,render(1),copy,render(1).. -> copies,render(n) *)
(* Positions are 1-based; 0 stands for the code's last == -1.                 *)

\* st with the slots from i on overwritten by the ids in ids
Overwrite(st, i, ids) ==
    [n \in 1..Len(st) |-> IF n >= i /\ n < i + Len(ids) THEN ids[n - i + 1] ELSE st[n]]

MGSCopyPattern(st, hp, i) ==
    /\ hp[st[i]].stepType = "COPY"
    /\ hp[st[i + 1]].stepType = "RENDER"
    /\ hp[st[i + 2]].stepType = "COPY"
    /\ hp[st[i + 1]].numDraws = 1
    /\ hp[st[i]].dst = hp[st[i + 2]].dst

\* The step at j ends the sequence that started at i (sets last = j - 1).
\* cmd.draw.count of a DRAW_INDEXED command reads the bytes of
\* drawIndexed.ibuffer (field b).
MGSCopyEnds(st, hp, i, j) ==
    LET s == hp[st[j]]
    IN CASE s.stepType = "RENDER" ->
              \/ s.numDraws > 1
              \/ /\ Len(s.commands) > 0
                 /\ s.commands[Len(s.commands)].cmd = "DRAW_INDEXED"
                 /\ s.commands[Len(s.commands)].b # 6
         [] s.stepType = "COPY" -> s.dst # hp[st[i]].dst
         [] OTHER -> FALSE

MGSCopyLast(st, hp, i) ==
    LET ends == {j \in i..Len(st) : MGSCopyEnds(st, hp, i, j)}
    IN IF ends = {} THEN 0 ELSE SetMin(ends) - 1

\* "Combine the renders": renders[j] for j >= 1 is appended to the step in
\* slot first and the step in slot first + j is marked RENDER_SKIP.
RECURSIVE CombineInto(_, _, _, _, _)
CombineInto(st, hp, first, group, j) ==
    IF j > Len(group) THEN hp
    ELSE LET appended == [hp EXCEPT ![st[first]].commands = @ \o hp[group[j]].commands]
         IN CombineInto(st, [appended EXCEPT ![st[first + j - 1]].stepType = "RENDER_SKIP"],
                        first, group, j + 1)

MGSCopyRewrite(st, hp, i, last) ==
    LET range == SubSeq(st, i, last)
        IsCopy(id) == hp[id].stepType = "COPY"
        IsRender(id) == hp[id].stepType = "RENDER"
        copies == SelectSeq(range, IsCopy)
        renders == SelectSeq(range, IsRender)
        st2 == Overwrite(Overwrite(st, i, copies), i + Len(copies), renders)
    IN [steps |-> st2, heap |-> CombineInto(st2, hp, i + Len(copies), renders, 2)]

MGSCopyLoop(st, hp) ==
    LET found == {i \in 1..(Len(st) - 3) : MGSCopyPattern(st, hp, i) /\ MGSCopyLast(st, hp, i) # 0}
    IN IF found = {} THEN [steps |-> st, heap |-> hp]
       ELSE MGSCopyRewrite(st, hp, SetMin(found), MGSCopyLast(st, hp, SetMin(found)))

(* ApplyMGSHack, second loop: alternating depal / target renders *)

MGSDepalPattern(st, hp, i) ==
    /\ hp[st[i]].stepType = "RENDER"
    /\ hp[st[i + 1]].stepType = "RENDER"
    /\ hp[st[i + 2]].stepType = "RENDER"
    /\ hp[st[i]].numDraws = 1
    /\ hp[st[i + 1]].numDraws = 1
    /\ hp[st[i + 2]].numDraws = 1
    /\ hp[st[i]].color = "DONT_CARE"
    /\ hp[st[i + 1]].color = "KEEP"
    /\ hp[st[i + 2]].color = "DONT_CARE"

\* The check the inner scan applies to the step at j; the step type is not
\* looked at, the render member is read whatever the step is.
MGSDepalCheck(st, hp, i, j) ==
    LET s == hp[st[j]]
    IN IF (j - i) % 2 = 0
       THEN /\ RenderNumDrawsOf(s) = 1
            /\ RenderColorOf(s) = "DONT_CARE"
            /\ RenderFramebufferOf(s) = hp[st[i]].framebuffer
       ELSE /\ RenderNumDrawsOf(s) = 1
            /\ RenderColorOf(s) = "KEEP"
            /\ RenderFramebufferOf(s) = hp[st[i + 1]].framebuffer

\* for (j = i; j < steps.size() - 3; j++): last passing j before the first failure
MGSDepalLast(st, hp, i) ==
    LET fails == {j \in i..(Len(st) - 3) : ~MGSDepalCheck(st, hp, i, j)}
        stop == IF fails = {} THEN Len(st) - 3 + 1 ELSE SetMin(fails)
    IN IF stop = i THEN 0 ELSE stop - 1

\* the DRAW and DRAW_INDEXED commands of a command list
DrawsOnly(cmds) == SelectSeq(cmds, IsDraw)

\* for (j = from; j <= upto; j += 2): append the draws of steps[j] to steps[into]
\* and mark steps[j] RENDER_SKIP
RECURSIVE MGSDepalCombine(_, _, _, _, _)
MGSDepalCombine(st, hp, into, j, upto) ==
    IF j > upto THEN hp
    ELSE LET appended == [hp EXCEPT ![st[into]].commands = @ \o DrawsOnly(hp[st[j]].commands)]
         IN MGSDepalCombine(st, [appended EXCEPT ![st[j]].stepType = "RENDER_SKIP"],
                            into, j + 2, upto)

MGSDepalLoop(st, hp) ==
    LET found == {i \in 1..(Len(st) - 3) : MGSDepalPattern(st, hp, i) /\ MGSDepalLast(st, hp, i) # 0}
    IN IF found = {} THEN hp
       ELSE LET i == SetMin(found)
                last == MGSDepalLast(st, hp, i)
                depals == MGSDepalCombine(st, hp, i, i + 2, last + 1)
            IN MGSDepalCombine(st, depals, i + 1, i + 3, last)

ApplyMGSHack(st, hp) ==
    LET first == MGSCopyLoop(st, hp)
    IN [steps |-> first.steps, heap |-> MGSDepalLoop(first.steps, first.heap)]

-----------------------------------------------------------------------------
(* ApplySonicHack *)

SonicPattern(st, hp, i) ==
    /\ hp[st[i]].stepType = "RENDER"
    /\ hp[st[i + 1]].stepType = "RENDER"
    /\ hp[st[i + 2]].stepType = "RENDER"
    /\ hp[st[i + 3]].stepType = "RENDER"
    /\ hp[st[i]].numDraws = 3
    /\ hp[st[i + 1]].numDraws = 1
    /\ hp[st[i + 2]].numDraws = 6
    /\ hp[st[i + 3]].numDraws = 1
    /\ hp[st[i]].framebuffer = hp[st[i + 2]].framebuffer
    /\ hp[st[i + 1]].framebuffer = hp[st[i + 3]].framebuffer

\* The step at j ends the sequence that started at i (sets last = j - 1).
SonicEnds(st, hp, i, j) ==
    LET s == hp[st[j]]
    IN /\ s.stepType = "RENDER"
       /\ IF (j - i) % 2 = 1
          THEN s.framebuffer # hp[st[i + 1]].framebuffer \/ s.numDraws # 1
          ELSE s.framebuffer # hp[st[i]].framebuffer \/ (s.numDraws # 3 /\ s.numDraws # 6)

SonicLast(st, hp, i) ==
    LET ends == {j \in i..Len(st) : SonicEnds(st, hp, i, j)}
    IN IF ends = {} THEN 0 ELSE SetMin(ends) - 1

SonicRewrite(st, hp, i, last) ==
    LET range == SubSeq(st, i, last)
        IsType1(id) == RenderFramebufferOf(hp[id]) = hp[st[i]].framebuffer
        IsType2(id) == ~IsType1(id)
        type1 == SelectSeq(range, IsType1)
        type2 == SelectSeq(range, IsType2)
        st2 == Overwrite(Overwrite(st, i, type1), i + Len(type1), type2)
        hp1 == CombineInto(st2, hp, i, type1, 2)
    IN [steps |-> st2, heap |-> CombineInto(st2, hp1, i + Len(type1), type2, 2)]

ApplySonicHack(st, hp) ==
    LET found == {i \in 1..(Len(st) - 4) : SonicPattern(st, hp, i) /\ SonicLast(st, hp, i) # 0}
    IN IF found = {} THEN [steps |-> st, heap |-> hp]
       ELSE SonicRewrite(st, hp, SetMin(found), SonicLast(st, hp, SetMin(found)))

-----------------------------------------------------------------------------
(* ApplyRenderPassMerge *)

\* counts[fb]: number of slots holding a RENDER step on fb
RenderCount(st, hp, fb) ==
    Cardinality({i \in 1..Len(st) : hp[st[i]].stepType = "RENDER" /\ hp[st[i]].framebuffer = fb})

\* a scan that looks at the source of a copy or blit only
MergeStopsSourceOnly(s, fb, touched) ==
    CASE s.stepType = "RENDER" -> fb \in s.dependencies \/ s.dependencies \cap touched # {}
      [] s.stepType \in {"COPY", "BLIT", "READBACK"} -> s.src = fb
      [] OTHER -> FALSE

\* a scan that forgets the framebuffers touched on the way
MergeStopsForgetsTouched(s, fb, touched) ==
    CASE s.stepType = "RENDER" -> fb \in s.dependencies
      [] s.stepType = "COPY" -> s.src = fb \/ s.dst = fb
      [] s.stepType = "BLIT" -> s.src = fb \/ s.dst = fb
      [] s.stepType = "READBACK" -> s.src = fb
      [] OTHER -> FALSE

\* The step at j cancels the scan for framebuffer fb (goto done_fb),
\* given the framebuffers touched so far.
MergeStops(s, fb, touched) ==
    CASE s.stepType = "RENDER" -> fb \in s.dependencies \/ s.dependencies \cap touched # {}
      [] s.stepType = "COPY" -> s.src = fb \/ s.dst = fb
      [] s.stepType = "BLIT" -> s.src = fb \/ s.dst = fb
      [] s.stepType = "READBACK" -> s.src = fb
      [] OTHER -> FALSE

\* touchedFramebuffers after the step at j was passed
MergeTouched(s, fb, touched) ==
    CASE s.stepType = "RENDER" -> IF s.framebuffer # fb THEN touched \cup {s.framebuffer} ELSE touched
      [] s.stepType \in {"COPY", "BLIT"} -> touched \cup {s.dst}
      [] OTHER -> touched

\* a slurp that takes the pretransitions and leaves the commands behind
AbsorbNoCommands(si, sj) ==
    [si EXCEPT !.preTransitions = @ \o sj.preTransitions]

\* steps[i] after it slurped up steps[j]
Absorb(si, sj) ==
    [si EXCEPT !.preTransitions = @ \o sj.preTransitions,
               !.commands = @ \o sj.commands]

\* the inner loop over j for the step in slot i
RECURSIVE MergeScan(_, _, _, _, _)
MergeScan(st, hp, i, j, touched) ==
    IF j > Len(st) THEN hp
    ELSE LET sj == hp[st[j]]
             fb == hp[st[i]].framebuffer
         IN IF MergeStops(sj, fb, touched) THEN hp
            ELSE IF sj.stepType = "RENDER" /\ sj.framebuffer = fb
                 THEN LET slurped == [hp EXCEPT ![st[i]] = Absorb(hp[st[i]], sj)]
                      IN MergeScan(st, [slurped EXCEPT ![st[j]].stepType = "RENDER_SKIP"],
                                   i, j + 1, MergeTouched(sj, fb, touched))
                 ELSE MergeScan(st, hp, i, j + 1, MergeTouched(sj, fb, touched))

\* the outer loop over i; counts is computed once, before the loop
RECURSIVE MergeFrom(_, _, _, _)
MergeFrom(st, hp, hp0, i) ==
    IF i > Len(st) THEN hp
    ELSE IF hp[st[i]].stepType = "RENDER" /\ RenderCount(st, hp0, hp[st[i]].framebuffer) > 1
         THEN MergeFrom(st, MergeScan(st, hp, i, i + 1, {}), hp0, i + 1)
         ELSE MergeFrom(st, hp, hp0, i + 1)

ApplyRenderPassMerge(st, hp) == MergeFrom(st, hp, hp, 1)

-----------------------------------------------------------------------------
(* RunSteps, up to the execution loop *)

DeadClearStage(st, hp) == [steps |-> st, heap |-> DeadClearPass(st, NormalizeAll(st, hp))]

\* the outer test alone: any bit enables the hack
MGSEnabledByAnyBit(hacks) == hacks # 0

MGSEnabled(hacks) == hacks # 0 /\ HasBit(hacks, QUEUE_HACK_MGS2_ACID)
SonicEnabled(hacks) == hacks # 0 /\ HasBit(hacks, QUEUE_HACK_SONIC)
MergeEnabled(hacks) == hacks # 0 /\ HasBit(hacks, QUEUE_HACK_RENDERPASS_MERGE)

MGSStage(hacks, fr) ==
    IF MGSEnabled(hacks) THEN ApplyMGSHack(fr.steps, fr.heap) ELSE fr

SonicStage(hacks, fr) ==
    IF SonicEnabled(hacks) THEN ApplySonicHack(fr.steps, fr.heap) ELSE fr

\* the merge never called
MergeStageSkipped(hacks, fr) == fr

MergeStage(hacks, fr) ==
    IF MergeEnabled(hacks)
    THEN [steps |-> fr.steps, heap |-> ApplyRenderPassMerge(fr.steps, fr.heap)] ELSE fr

-----------------------------------------------------------------------------
(* The command buffer (ghost) and the state the Perform* functions work on   *)

\* One emitted command. fb / fb2: the framebuffers whose images it names
\* ("null" the backbuffer, "image" a raw VkImage); old / new: the layouts it
\* carries; n: a handle, a value or the uid of the recorded command.
Entry(op, fb, fb2, aspect, old, new, n) ==
    [op |-> op, fb |-> fb, fb2 |-> fb2, aspect |-> aspect, old |-> old, new |-> new, n |-> n]

Barrier(fb, aspect, old, new) == Entry("vkCmdPipelineBarrier", fb, "-", aspect, old, new, 0)

\* What the Perform* functions read and write:
\*   color, depth : the layout tags;  log : the command buffer;
\*   cache, objs  : renderPasses_ and the pass objects created;
\*   asserts      : failed assertions;  calls : ghost, GetRenderPass calls
Emit(ex, entries) == [ex EXCEPT !.log = @ \o entries]

Failed(ex, what) == [ex EXCEPT !.asserts = @ \cup {what}]

-----------------------------------------------------------------------------
(* GetRenderPass *)

RPKey(colorLoadAction, depthLoadAction, stencilLoadAction, prevColorLayout, prevDepthLayout, finalColorLayout) ==
    [colorLoadAction |-> colorLoadAction, depthLoadAction |-> depthLoadAction,
     stencilLoadAction |-> stencilLoadAction, prevColorLayout |-> prevColorLayout,
     prevDepthLayout |-> prevDepthLayout, finalColorLayout |-> finalColorLayout]

\* The VkRenderPass object vkCreateRenderPass builds for a key: what the two
\* attachment descriptions say.
PassObject(key) ==
    [key |-> key, backbuffer |-> FALSE,
     colorLoadOp |-> key.colorLoadAction,
     depthLoadOp |-> key.depthLoadAction,
     stencilLoadOp |-> key.stencilLoadAction,
     colorInitial |-> key.prevColorLayout,
     colorFinal |-> key.finalColorLayout,
     depthInitial |-> key.prevDepthLayout,
     depthFinal |-> "DEPTH_STENCIL_ATTACHMENT_OPTIMAL"]

\* The object InitBackbufferRenderPass builds.
BackbufferPassObject ==
    [key |-> RPKey("CLEAR", "CLEAR", "CLEAR", "UNDEFINED",
                   "DEPTH_STENCIL_ATTACHMENT_OPTIMAL", "PRESENT_SRC_KHR"),
     backbuffer |-> TRUE,
     colorLoadOp |-> "CLEAR", depthLoadOp |-> "CLEAR", stencilLoadOp |-> "CLEAR",
     colorInitial |-> "UNDEFINED", colorFinal |-> "PRESENT_SRC_KHR",
     depthInitial |-> "DEPTH_STENCIL_ATTACHMENT_OPTIMAL",
     depthFinal |-> "DEPTH_STENCIL_ATTACHMENT_OPTIMAL"]

\* the layouts the switch statements of GetRenderPass have a case for
KnownPrevColor == {"UNDEFINED", "COLOR_ATTACHMENT_OPTIMAL", "GENERAL", "SHADER_READ_ONLY_OPTIMAL",
                   "TRANSFER_DST_OPTIMAL", "TRANSFER_SRC_OPTIMAL"}
KnownPrevDepth == {"UNDEFINED", "DEPTH_STENCIL_ATTACHMENT_OPTIMAL", "SHADER_READ_ONLY_OPTIMAL",
                   "TRANSFER_SRC_OPTIMAL", "TRANSFER_DST_OPTIMAL"}
KnownFinalColor == {"SHADER_READ_ONLY_OPTIMAL", "TRANSFER_SRC_OPTIMAL", "TRANSFER_DST_OPTIMAL",
                    "UNDEFINED", "COLOR_ATTACHMENT_OPTIMAL"}

\* renderPasses_.Insert(key, pass)
CacheInsert(cache, key, pass) ==
    [k \in DOMAIN cache \cup {key} |-> IF k = key THEN pass ELSE cache[k]]

\* renderPasses_.Get(key); 0 is VK_NULL_HANDLE, the map's null value
CacheGet(cache, key) == IF key \in DOMAIN cache THEN cache[key] ELSE 0

\* The handle GetRenderPass returns for key in state ex: the cached one, or
\* the fresh handle vkCreateRenderPass returns.
GetRenderPassHandle(ex, key) ==
    IF CacheGet(ex.cache, key) # 0 THEN CacheGet(ex.cache, key) ELSE Len(ex.objs) + 1

\* ghost: the call and its result are noted
NoteCall(ex, key) ==
    [ex EXCEPT !.calls = Append(@, [key |-> key, handle |-> GetRenderPassHandle(ex, key),
                                    created |-> CacheGet(ex.cache, key) = 0])]

\* a GetRenderPass that forgets to insert what it created
GetRenderPassNoInsert(ex, key) ==
    IF CacheGet(ex.cache, key) # 0 THEN ex
    ELSE [ex EXCEPT !.objs = Append(@, PassObject(key))]

\* The state the body of GetRenderPass leaves.
GetRenderPassBody(ex, key) ==
    IF CacheGet(ex.cache, key) # 0 THEN ex
    ELSE LET bad == (IF key.prevColorLayout \in KnownPrevColor THEN {} ELSE {"GetRenderPass: prevColorLayout"})
                    \cup (IF key.prevDepthLayout \in KnownPrevDepth THEN {} ELSE {"GetRenderPass: prevDepthLayout"})
                    \cup (IF key.finalColorLayout \in KnownFinalColor THEN {} ELSE {"GetRenderPass: finalColorLayout"})
         IN [ex EXCEPT !.objs = Append(@, PassObject(key)),
                       !.cache = CacheInsert(@, key, Len(ex.objs) + 1),
                       !.asserts = @ \cup bad]

GetRenderPass(ex, key) == GetRenderPassBody(NoteCall(ex, key), key)

\* a lookup that reports the pass found and leaves *outKey as it was
GetRenderPassKeyStaleOutKey(cache, passToFind, outKey) ==
    LET hits == {key \in DOMAIN cache : cache[key] = passToFind}
    IN {[found |-> hits # {}, outKey |-> outKey]}

\* GetRenderPassKey: the results it can give, as [found, outKey]. Iterate
\* visits every entry; should several hold passToFind, the one visited last
\* is written, and the order of the visit is the map's.
GetRenderPassKey(cache, passToFind, outKey) ==
    LET hits == {key \in DOMAIN cache : cache[key] = passToFind}
    IN IF hits = {} THEN {[found |-> FALSE, outKey |-> outKey]}
       ELSE {[found |-> TRUE, outKey |-> key] : key \in hits}

-----------------------------------------------------------------------------
(* PerformRenderPass and PerformBindFramebufferAsRenderTarget *)

\* the oldLayout / newLayout values the preTransition switch statements accept
KnownPreOld == {"COLOR_ATTACHMENT_OPTIMAL", "UNDEFINED", "TRANSFER_DST_OPTIMAL", "TRANSFER_SRC_OPTIMAL"}
KnownPreNew == {"SHADER_READ_ONLY_OPTIMAL"}

\* an iteration that emits its barrier whatever the tag is
PreTransitionUnconditional(ex, iter) ==
    [ex EXCEPT !.log = Append(@, Barrier(iter.fb, "color", ex.color[iter.fb], iter.targetLayout)),
               !.color[iter.fb] = iter.targetLayout]

\* one iteration of the preTransitions loop
PreTransition(ex, iter) ==
    IF ex.color[iter.fb] # iter.targetLayout
    THEN LET old == ex.color[iter.fb]
             bad == (IF old \in KnownPreOld THEN {} ELSE {"PerformRenderPass: oldLayout"})
                    \cup (IF iter.targetLayout \in KnownPreNew THEN {} ELSE {"PerformRenderPass: newLayout"})
         IN [ex EXCEPT !.log = Append(@, Barrier(iter.fb, "color", old, iter.targetLayout)),
                       !.color[iter.fb] = iter.targetLayout,
                       !.asserts = @ \cup bad]
    ELSE ex

RECURSIVE PreTransitions(_, _, _)
PreTransitions(ex, reqs, k) ==
    IF k > Len(reqs) THEN ex ELSE PreTransitions(PreTransition(ex, reqs[k]), reqs, k + 1)

\* a workaround taken whatever the number of draws
MaliBugWorkaroundWithDraws(step, mali) ==
    step.color = "CLEAR" /\ mali

\* a workaround taken on every driver
MaliBugWorkaroundAnyDriver(step, mali) ==
    step.numDraws = 0 /\ step.color = "CLEAR"

MaliBugWorkaround(step, mali) ==
    step.numDraws = 0 /\ step.color = "CLEAR" /\ mali

\* a bind that leaves the depth tag of the target as it found it
PerformBindFramebufferAsRenderTargetKeepsDepthTag(ex, step, mali, backbufferPass) ==
    IF step.framebuffer # NullFb
    THEN LET fb == step.framebuffer
             ex0 == IF step.finalColorLayout = "UNDEFINED"
                    THEN Failed(ex, "PerformBindRT: finalColorLayout") ELSE ex
             ex1 == IF MaliBugWorkaround(step, mali)
                    THEN [ex0 EXCEPT !.log = Append(@, Barrier(fb, "color", ex0.color[fb], "GENERAL")),
                                     !.color[fb] = "GENERAL"]
                    ELSE ex0
             key == RPKey(step.color, step.depth, step.stencil,
                          ex1.color[fb], ex1.depth[fb], step.finalColorLayout)
             renderPass == GetRenderPassHandle(ex1, key)
             ex2 == GetRenderPass(ex1, key)
         IN [ex2 EXCEPT !.color[fb] = "COLOR_ATTACHMENT_OPTIMAL",
                        !.log = Append(@, Entry("vkCmdBeginRenderPass", fb, "-", "-", "-", "-", renderPass))]
    ELSE Emit(ex, <<Entry("vkCmdBeginRenderPass", NullFb, "-", "-", "-", "-", backbufferPass)>>)

PerformBindFramebufferAsRenderTarget(ex, step, mali, backbufferPass) ==
    IF step.framebuffer # NullFb
    THEN LET fb == step.framebuffer
             ex0 == IF step.finalColorLayout = "UNDEFINED"
                    THEN Failed(ex, "PerformBindRT: finalColorLayout") ELSE ex
             ex1 == IF MaliBugWorkaround(step, mali)
                    THEN [ex0 EXCEPT !.log = Append(@, Barrier(fb, "color", ex0.color[fb], "GENERAL")),
                                     !.color[fb] = "GENERAL"]
                    ELSE ex0
             key == RPKey(step.color, step.depth, step.stencil,
                          ex1.color[fb], ex1.depth[fb], step.finalColorLayout)
             renderPass == GetRenderPassHandle(ex1, key)
             ex2 == GetRenderPass(ex1, key)
         IN [ex2 EXCEPT !.color[fb] = "COLOR_ATTACHMENT_OPTIMAL",
                        !.depth[fb] = "DEPTH_STENCIL_ATTACHMENT_OPTIMAL",
                        !.log = Append(@, Entry("vkCmdBeginRenderPass", fb, "-", "-", "-", "-", renderPass))]
    ELSE Emit(ex, <<Entry("vkCmdBeginRenderPass", NullFb, "-", "-", "-", "-", backbufferPass)>>)

\* The dynamic state PerformRenderPass tracks while it replays commands.
\* 0 is VK_NULL_HANDLE for lastPipeline, -1 the initial value of the others.
ReplayStart == [lastPipeline |-> 0, lastStencilWriteMask |-> -1,
                lastStencilCompareMask |-> -1, lastStencilReference |-> -1]

\* the commands one recorded command emits, given the tracked state
ReplayEmits(c, fb, t) ==
    CASE c.cmd = "BIND_PIPELINE" ->
            IF c.a # t.lastPipeline
            THEN <<Entry("vkCmdBindPipeline", fb, "-", "-", "-", "-", c.a)>> ELSE << >>
      [] c.cmd = "STENCIL" ->
            (IF t.lastStencilWriteMask # c.a
             THEN <<Entry("vkCmdSetStencilWriteMask", fb, "-", "-", "-", "-", c.a)>> ELSE << >>)
            \o (IF t.lastStencilCompareMask # c.b
                THEN <<Entry("vkCmdSetStencilCompareMask", fb, "-", "-", "-", "-", c.b)>> ELSE << >>)
            \o (IF t.lastStencilReference # c.c
                THEN <<Entry("vkCmdSetStencilReference", fb, "-", "-", "-", "-", c.c)>> ELSE << >>)
      [] c.cmd = "DRAW_INDEXED" -> <<Entry("vkCmdDrawIndexed", fb, "-", "-", "-", "-", c.uid)>>
      [] c.cmd = "DRAW" -> <<Entry("vkCmdDraw", fb, "-", "-", "-", "-", c.uid)>>
      [] c.cmd = "CLEAR" ->
            IF c.a # 0 THEN <<Entry("vkCmdClearAttachments", fb, "-", "-", "-", "-", c.uid)>> ELSE << >>
      [] c.cmd \in {"VIEWPORT", "SCISSOR", "BLEND", "PUSH_CONSTANTS"} ->
            <<Entry(c.cmd, fb, "-", "-", "-", "-", c.uid)>>
      [] OTHER -> << >>

\* a tracking that keeps the stencil values over a change of pipeline
ReplayTracksKeepsStencil(c, t) ==
    CASE c.cmd = "BIND_PIPELINE" /\ c.a # t.lastPipeline -> [t EXCEPT !.lastPipeline = c.a]
      [] c.cmd = "STENCIL" ->
            [t EXCEPT !.lastStencilWriteMask = c.a, !.lastStencilCompareMask = c.b,
                      !.lastStencilReference = c.c]
      [] OTHER -> t

\* the tracked state after one recorded command
ReplayTracks(c, t) ==
    CASE c.cmd = "BIND_PIPELINE" /\ c.a # t.lastPipeline ->
            [lastPipeline |-> c.a, lastStencilWriteMask |-> -1,
             lastStencilCompareMask |-> -1, lastStencilReference |-> -1]
      [] c.cmd = "STENCIL" ->
            [t EXCEPT !.lastStencilWriteMask = c.a, !.lastStencilCompareMask = c.b,
                      !.lastStencilReference = c.c]
      [] OTHER -> t

RECURSIVE ReplayCommands(_, _, _, _)
ReplayCommands(commands, fb, t, k) ==
    IF k > Len(commands) THEN << >>
    ELSE ReplayEmits(commands[k], fb, t)
         \o ReplayCommands(commands, fb, ReplayTracks(commands[k], t), k + 1)

\* a test that takes a cleared stencil for a kept one
IsEmptyKeepStencilMistaken(step) ==
    Len(step.commands) = 0 /\ step.color = "KEEP" /\ step.depth = "KEEP" /\ step.stencil = "CLEAR"

\* "Don't execute empty renderpasses that keep the contents."
IsEmptyKeep(step) ==
    Len(step.commands) = 0 /\ step.color = "KEEP" /\ step.depth = "KEEP" /\ step.stencil = "KEEP"

\* the tag of the target left as the pass began it
SetFinalLayoutOmitted(ex, step) == ex

\* sets the tag of the step's own target after vkCmdEndRenderPass
SetFinalLayout(ex, step) ==
    IF step.framebuffer # NullFb
    THEN [ex EXCEPT !.color[step.framebuffer] = step.finalColorLayout]
    ELSE ex

PerformRenderPass(ex, step, mali, backbufferPass) ==
    LET ex1 == PreTransitions(ex, step.preTransitions, 1)
    IN IF IsEmptyKeep(step) THEN ex1
       ELSE LET fb == step.framebuffer
                ex2 == IF fb # NullFb /\ ex1.color[fb] = "COLOR_ATTACHMENT_OPTIMAL"
                       THEN Emit(ex1, <<Barrier(fb, "color", "COLOR_ATTACHMENT_OPTIMAL",
                                                "COLOR_ATTACHMENT_OPTIMAL")>>)
                       ELSE ex1
                ex3 == PerformBindFramebufferAsRenderTarget(ex2, step, mali, backbufferPass)
                ex4 == Emit(ex3, ReplayCommands(step.commands, fb, ReplayStart, 1)
                                 \o <<Entry("vkCmdEndRenderPass", fb, "-", "-", "-", "-", 0)>>)
            IN SetFinalLayout(ex4, step)

-----------------------------------------------------------------------------
(* SetupTransitionToTransferSrc / Dst, PerformCopy, PerformBlit *)

\* the layouts the two Setup functions have a case for
KnownToTransferSrc == {"COLOR_ATTACHMENT_OPTIMAL", "DEPTH_STENCIL_ATTACHMENT_OPTIMAL",
                       "TRANSFER_DST_OPTIMAL", "SHADER_READ_ONLY_OPTIMAL"}
KnownToTransferDst == {"COLOR_ATTACHMENT_OPTIMAL", "TRANSFER_SRC_OPTIMAL",
                       "DEPTH_STENCIL_ATTACHMENT_OPTIMAL", "SHADER_READ_ONLY_OPTIMAL"}

\* the layout tag of an image of a framebuffer
TagOf(ex, fb, aspect) == IF aspect = "color" THEN ex.color[fb] ELSE ex.depth[fb]

SetTag(ex, fb, aspect, layout) ==
    IF aspect = "color" THEN [ex EXCEPT !.color[fb] = layout]
    ELSE [ex EXCEPT !.depth[fb] = layout]

\* SetupTransitionToTransferSrc on the image (fb, aspect): fills in the
\* barrier and sets img.layout. The barrier itself is emitted by the caller.
SetupTransitionToTransferSrc(ex, fb, aspect) ==
    LET old == TagOf(ex, fb, aspect)
        ex1 == IF old \in KnownToTransferSrc THEN ex ELSE Failed(ex, "SetupTransitionToTransferSrc")
    IN SetTag(ex1, fb, aspect, "TRANSFER_SRC_OPTIMAL")

\* a Setup that fills in the barrier but leaves img.layout as it was
SetupTransitionToTransferDstKeepsTag(ex, fb, aspect) == ex

SetupTransitionToTransferDst(ex, fb, aspect) ==
    LET old == TagOf(ex, fb, aspect)
        ex1 == IF old \in KnownToTransferDst THEN ex ELSE Failed(ex, "SetupTransitionToTransferDst")
    IN SetTag(ex1, fb, aspect, "TRANSFER_DST_OPTIMAL")

\* The barrier-setup part shared by PerformCopy and PerformBlit. Returns the
\* state after the four conditional Setup calls, with the source barriers
\* and then the destination barriers emitted.
TransferBarriers(ex, src, dst, aspectMask) ==
    LET c == HasColor(aspectMask)
        d == HasDepthStencil(aspectMask)
        sc == c /\ ex.color[src] # "TRANSFER_SRC_OPTIMAL"
        a1 == IF sc THEN SetupTransitionToTransferSrc(ex, src, "color") ELSE ex
        dc == c /\ a1.color[dst] # "TRANSFER_DST_OPTIMAL"
        a2 == IF dc THEN SetupTransitionToTransferDst(a1, dst, "color") ELSE a1
        sd == d /\ a2.depth[src] # "TRANSFER_SRC_OPTIMAL"
        a3 == IF sd THEN SetupTransitionToTransferSrc(a2, src, "depth") ELSE a2
        dd == d /\ a3.depth[dst] # "TRANSFER_DST_OPTIMAL"
        a4 == IF dd THEN SetupTransitionToTransferDst(a3, dst, "depth") ELSE a3
        srcBarriers ==
            (IF sc THEN <<Barrier(src, "color", ex.color[src], "TRANSFER_SRC_OPTIMAL")>> ELSE << >>)
            \o (IF sd THEN <<Barrier(src, "depth", a2.depth[src], "TRANSFER_SRC_OPTIMAL")>> ELSE << >>)
        dstBarriers ==
            (IF dc THEN <<Barrier(dst, "color", a1.color[dst], "TRANSFER_DST_OPTIMAL")>> ELSE << >>)
            \o (IF dd THEN <<Barrier(dst, "depth", a3.depth[dst], "TRANSFER_DST_OPTIMAL")>> ELSE << >>)
    IN Emit(a4, srcBarriers \o dstBarriers)

\* the vkCmdCopyImage / vkCmdBlitImage calls, one per aspect group of the mask
TransferCommands(ex, op, src, dst, aspectMask) ==
    (IF HasColor(aspectMask)
     THEN <<Entry(op, src, dst, "color", ex.color[src], ex.color[dst], 0)>> ELSE << >>)
    \o (IF HasDepthStencil(aspectMask)
        THEN <<Entry(op, src, dst, "depth", ex.depth[src], ex.depth[dst], 0)>> ELSE << >>)

PerformCopy(ex, step) ==
    LET ex1 == TransferBarriers(ex, step.src, step.dst, step.aspectMask)
    IN Emit(ex1, TransferCommands(ex1, "vkCmdCopyImage", step.src, step.dst, step.aspectMask))

PerformBlit(ex, step) ==
    LET ex1 == TransferBarriers(ex, step.src, step.dst, step.aspectMask)
    IN Emit(ex1, TransferCommands(ex1, "vkCmdBlitImage", step.src, step.dst, step.aspectMask))

-----------------------------------------------------------------------------
(* ResizeReadbackBuffer, PerformReadback, PerformReadbackImage *)

\* The staging buffer: rb.buffer = readbackBuffer_, rb.memory = readbackMemory_,
\* rb.size = readbackBufferSize_ (0 is VK_NULL_HANDLE); rb.events: ghost.
\* allocOk: whether vkAllocateMemory succeeds. Handles are numbered by creation.
BufEvent(what, handle) == [what |-> what, handle |-> handle]

Created(events, what) == Cardinality({k \in 1..Len(events) : events[k].what = what})

\* a resize that reallocates on every call
ResizeReadbackBufferEveryCall(rb, requiredSize, allocOk) ==
    [buffer |-> Created(rb.events, "vkCreateBuffer") + 1,
     memory |-> Created(rb.events, "vkAllocateMemory") + 1, size |-> requiredSize,
     events |-> rb.events \o <<BufEvent("vkCreateBuffer", Created(rb.events, "vkCreateBuffer") + 1),
                                BufEvent("vkAllocateMemory", Created(rb.events, "vkAllocateMemory") + 1)>>]

\* a resize that does not reset readbackMemory_ when the allocation fails
ResizeReadbackBufferKeepsMemory(rb, requiredSize, allocOk) ==
    IF rb.buffer # 0 /\ requiredSize <= rb.size THEN rb
    ELSE LET buf == Created(rb.events, "vkCreateBuffer") + 1
             mem == Created(rb.events, "vkAllocateMemory") + 1
         IN IF allocOk
            THEN [buffer |-> buf, memory |-> mem, size |-> requiredSize,
                  events |-> rb.events \o <<BufEvent("vkCreateBuffer", buf), BufEvent("vkAllocateMemory", mem)>>]
            ELSE [buffer |-> 0, memory |-> mem, size |-> requiredSize,
                  events |-> rb.events \o <<BufEvent("vkCreateBuffer", buf), BufEvent("vkDestroyBuffer", buf)>>]

ResizeReadbackBuffer(rb, requiredSize, allocOk) ==
    IF rb.buffer # 0 /\ requiredSize <= rb.size THEN rb
    ELSE LET ev1 == rb.events
                    \o (IF rb.memory # 0 THEN <<BufEvent("QueueDeleteDeviceMemory", rb.memory)>> ELSE << >>)
                    \o (IF rb.buffer # 0 THEN <<BufEvent("QueueDeleteBuffer", rb.buffer)>> ELSE << >>)
             buf == Created(ev1, "vkCreateBuffer") + 1
             mem == Created(ev1, "vkAllocateMemory") + 1
         IN IF allocOk
            THEN [buffer |-> buf, memory |-> mem, size |-> requiredSize,
                  events |-> ev1 \o <<BufEvent("vkCreateBuffer", buf), BufEvent("vkAllocateMemory", mem)>>]
            ELSE [buffer |-> 0, memory |-> 0, size |-> requiredSize,
                  events |-> ev1 \o <<BufEvent("vkCreateBuffer", buf), BufEvent("vkDestroyBuffer", buf)>>]

\* sizeof(uint32_t) * width * height
ReadbackBytes(step) == 4 * step.width * step.height

\* The image-layout part of PerformReadback; buffer is readbackBuffer_ after
\* the resize.
PerformReadback(ex, step, buffer) ==
    IF step.src = NullFb
    THEN Emit(ex, <<Barrier(NullFb, "color", "PRESENT_SRC_KHR", "TRANSFER_SRC_OPTIMAL"),
                    Entry("vkCmdCopyImageToBuffer", NullFb, "-", "color", "TRANSFER_SRC_OPTIMAL", "-", buffer),
                    Barrier(NullFb, "color", "TRANSFER_SRC_OPTIMAL", "PRESENT_SRC_KHR")>>)
    ELSE IF ~HasColor(step.aspectMask) /\ ~HasDepthStencil(step.aspectMask)
         THEN Failed(ex, "PerformReadback: no image aspect")
         ELSE LET aspect == IF HasColor(step.aspectMask) THEN "color" ELSE "depth"
                  old == TagOf(ex, step.src, aspect)
                  ex1 == IF old # "TRANSFER_SRC_OPTIMAL"
                         THEN Emit(SetupTransitionToTransferSrc(ex, step.src, aspect),
                                   <<Barrier(step.src, aspect, old, "TRANSFER_SRC_OPTIMAL")>>)
                         ELSE ex
              IN Emit(ex1, <<Entry("vkCmdCopyImageToBuffer", step.src, "-", aspect,
                                   TagOf(ex1, step.src, aspect), "-", buffer)>>)

\* PerformReadbackImage works on a raw VkImage whose layout it takes to be
\* SHADER_READ_ONLY_OPTIMAL.
PerformReadbackImage(ex, step, buffer) ==
    Emit(ex, <<Barrier("image", "color", "SHADER_READ_ONLY_OPTIMAL", "TRANSFER_SRC_OPTIMAL"),
               Entry("vkCmdCopyImageToBuffer", "image", "-", "color", "TRANSFER_SRC_OPTIMAL", "-", buffer),
               Barrier("image", "color", "TRANSFER_SRC_OPTIMAL", "SHADER_READ_ONLY_OPTIMAL")>>)

\* whether the step calls ResizeReadbackBuffer
Resizes(step) == step.stepType \in {"READBACK", "READBACK_IMAGE"}

\* the body of the switch in the execution loop of RunSteps
PerformStep(ex, step, mali, backbufferPass, buffer) ==
    CASE step.stepType = "RENDER" -> PerformRenderPass(ex, step, mali, backbufferPass)
      [] step.stepType = "COPY" -> PerformCopy(ex, step)
      [] step.stepType = "BLIT" -> PerformBlit(ex, step)
      [] step.stepType = "READBACK" -> PerformReadback(ex, step, buffer)
      [] step.stepType = "READBACK_IMAGE" -> PerformReadbackImage(ex, step, buffer)
      [] OTHER -> ex

-----------------------------------------------------------------------------
(* Ghost: the layout every framebuffer image really has, replayed from the   *)
(* emitted commands alone                                                    *)

\* real: [color |-> [fb -> layout], depth |-> [fb -> layout]], bad: images
\* for which a command carried an oldLayout (or initial layout) other than
\* the real one.
ReplayEntry(g, e, objs) ==
    IF e.fb \notin Framebuffers THEN g
    ELSE CASE e.op = "vkCmdPipelineBarrier" ->
                 [real |-> [g.real EXCEPT ![e.aspect][e.fb] = e.new],
                  bad |-> IF g.real[e.aspect][e.fb] = e.old THEN g.bad
                          ELSE g.bad \cup {<<e.fb, e.aspect>>}]
           [] e.op = "vkCmdBeginRenderPass" ->
                 [real |-> [g.real EXCEPT !["color"][e.fb] = objs[e.n].colorFinal,
                                          !["depth"][e.fb] = objs[e.n].depthFinal],
                  bad |-> g.bad
                          \cup (IF g.real["color"][e.fb] = objs[e.n].colorInitial THEN {}
                                ELSE {<<e.fb, "color">>})
                          \cup (IF g.real["depth"][e.fb] = objs[e.n].depthInitial THEN {}
                                ELSE {<<e.fb, "depth">>})]
           [] OTHER -> g

RECURSIVE ReplayLog(_, _, _, _)
ReplayLog(g, entries, objs, k) ==
    IF k > Len(entries) THEN g
    ELSE ReplayLog(ReplayEntry(g, entries[k], objs), entries, objs, k + 1)

-----------------------------------------------------------------------------
(* CopyReadbackBuffer: from the mapped staging memory to the caller's pixels *)

MaxWidth == 2
MaxHeight == 2
MaxStride == 3

DataFormats == {"R8G8B8A8_UNORM", "B8G8R8A8_UNORM", "R5G6B5_UNORM_PACK16", "D32F"}

DataFormatSizeInBytes(fmt) == IF fmt = "R5G6B5_UNORM_PACK16" THEN 2 ELSE 4

\* the bytes of the staging memory and of the caller's buffer, from offset 0
StagedBytes == MaxWidth * MaxHeight * 4
DestBytes == MaxStride * MaxHeight * 4

\* what the device left in the staging memory
StagedPatterns ==
    {[k \in 0..(StagedBytes - 1) |-> k + 1], [k \in 0..(StagedBytes - 1) |-> 200 - 3 * k]}

NoCall == [width |-> 0, height |-> 0, srcFormat |-> "-", destFormat |-> "-",
           pixelStride |-> 0, mapped |-> << >>, made |-> FALSE]

MapEvent(what, memory) == [what |-> what, handle |-> memory]

\* out: [pixels, written, log]
Logged(out, events) == [out EXCEPT !.log = @ \o events]

\* a memcpy that leaves out the last byte
MemcpyShort(out, dst, src, from, n) ==
    [out EXCEPT !.pixels = [k \in DOMAIN @ |-> IF k \in dst..(dst + n - 2) THEN src[from + (k - dst)]
                                               ELSE @[k]],
                !.written = @ \cup (dst..(dst + n - 2))]

\* memcpy(pixels + dst, mappedData + from, n)
Memcpy(out, dst, src, from, n) ==
    [out EXCEPT !.pixels = [k \in DOMAIN @ |-> IF k \in dst..(dst + n - 1) THEN src[from + (k - dst)]
                                               ELSE @[k]],
                !.written = @ \cup (dst..(dst + n - 1))]

\* the row loop of the srcFormat == destFormat branch, from row y on
RECURSIVE CopyRows(_, _, _, _, _, _, _, _, _)
CopyRows(out, mapped, dst, src, y, width, height, pixelStride, srcPixelSize) ==
    IF y >= height THEN out
    ELSE CopyRows(Memcpy(out, dst, mapped, src, width * srcPixelSize), mapped,
                  dst + pixelStride * srcPixelSize, src + width * srcPixelSize, y + 1,
                  width, height, pixelStride, srcPixelSize)

\* byte b of the pixel a conversion makes of the source pixel at offset base:
\* a copy for equal formats, a swap of the red and blue bytes between the
\* two 32-bit colour formats, and a packed or widened value otherwise
ConvertedByte(srcFormat, destFormat, mapped, base, b) ==
    IF srcFormat = destFormat THEN mapped[base + b]
    ELSE IF {srcFormat, destFormat} = {"R8G8B8A8_UNORM", "B8G8R8A8_UNORM"}
         THEN mapped[base + (IF b \in {0, 2} THEN 2 - b ELSE b)]
         ELSE (mapped[base] + mapped[base + 1] + b) % 256

\* a conversion routine of the colour conversion library: every pixel of the
\* width x height region, the rows srcStride and dstStride pixels apart
Convert(out, mapped, dstStride, srcStride, width, height, srcFormat, destFormat) ==
    LET ss == DataFormatSizeInBytes(srcFormat)
        ds == DataFormatSizeInBytes(destFormat)
        Cells == {<<x, y, b>> \in (0..(width - 1)) \X (0..(height - 1)) \X (0..(ds - 1)) : TRUE}
        At(c) == (c[2] * dstStride + c[1]) * ds + c[3]
        Src(k) == CHOOSE c \in Cells : At(c) = k
    IN [out EXCEPT
          !.pixels = [k \in DOMAIN @ |->
                        IF \E c \in Cells : At(c) = k
                        THEN ConvertedByte(srcFormat, destFormat, mapped,
                                           (Src(k)[2] * srcStride + Src(k)[1]) * ss, Src(k)[3])
                        ELSE @[k]],
          !.written = @ \cup {At(c) : c \in Cells}]

ConvertFromRGBA8888(out, mapped, dstStride, srcStride, width, height, format) ==
    Convert(out, mapped, dstStride, srcStride, width, height, "R8G8B8A8_UNORM", format)

ConvertFromBGRA8888(out, mapped, dstStride, srcStride, width, height, format) ==
    Convert(out, mapped, dstStride, srcStride, width, height, "B8G8R8A8_UNORM", format)

ConvertToD32F(out, mapped, dstStride, srcStride, width, height, format) ==
    Convert(out, mapped, dstStride, srcStride, width, height, format, "D32F")

Aborted(log) == Len(log) > 0 /\ log[Len(log)].what = "abort"

\* CopyReadbackBuffer. mapOk: vkMapMemory returns VK_SUCCESS; coherent:
\* readbackBufferIsCoherent_; ndebug: the build defines NDEBUG, so that
\* assert(false) is compiled out
CopyReadbackBufferBody(out, memory, mapped, width, height, srcFormat, destFormat, pixelStride, mapOk, coherent, ndebug) ==
    IF memory = 0 THEN out
    ELSE LET srcPixelSize == DataFormatSizeInBytes(srcFormat)
             o1 == Logged(out, <<MapEvent("vkMapMemory", memory)>>
                               \o (IF coherent THEN << >>
                                   ELSE <<MapEvent("vkInvalidateMappedMemoryRanges", memory)>>))
             o2 == IF srcFormat = "R8G8B8A8_UNORM"
                   THEN ConvertFromRGBA8888(o1, mapped, pixelStride, width, width, height, destFormat)
                   ELSE IF srcFormat = "B8G8R8A8_UNORM"
                   THEN ConvertFromBGRA8888(o1, mapped, pixelStride, width, width, height, destFormat)
                   ELSE IF srcFormat = destFormat
                   THEN CopyRows(o1, mapped, 0, 0, 0, width, height, pixelStride, srcPixelSize)
                   ELSE IF destFormat = "D32F"
                   THEN ConvertToD32F(o1, mapped, pixelStride, width, width, height, srcFormat)
                   ELSE Logged(o1, <<MapEvent("ELOG: Unknown format", memory)>>
                                   \o (IF ndebug THEN << >> ELSE <<MapEvent("abort", memory)>>))
         IN IF ~mapOk THEN Logged(o1, <<MapEvent("ELOG: vkMapMemory failed", memory)>>)
            ELSE IF Aborted(o2.log) THEN o2
            ELSE Logged(o2, <<MapEvent("vkUnmapMemory", memory)>>)

-----------------------------------------------------------------------------
(* The inputs: frames handed to RunSteps *)

\* whether a step samples or copies from framebuffer fb
ReadsFrom(t, fb) ==
    CASE t.stepType = "RENDER" -> fb \in t.dependencies
      [] t.stepType \in {"COPY", "BLIT", "READBACK"} -> t.src = fb
      [] OTHER -> FALSE

\* The recorder's bookkeeping of render.numReads: a read of a framebuffer is
\* counted on the last render step to that framebuffer recorded before it.
RecordedReads(list, i) ==
    IF list[i].stepType # "RENDER" \/ list[i].framebuffer = NullFb THEN 0
    ELSE Cardinality({k \in (i + 1)..Len(list) :
            /\ ReadsFrom(list[k], list[i].framebuffer)
            /\ \A m \in (i + 1)..(k - 1) :
                  ~(list[m].stepType = "RENDER" /\ list[m].framebuffer = list[i].framebuffer)})

\* the frame (vector and objects) recorded from a sequence of templates
FrameOf(list) ==
    [steps |-> [i \in 1..Len(list) |-> i],
     heap |-> [id \in 1..Len(list) |->
                 [MakeStep(list[id], id) EXCEPT !.numReads = RecordedReads(list, id)]]]

StepLists(palette, maxLen) == UNION {[1..n -> palette] : n \in 0..maxLen}


\* Templates of the general frames: renders that keep, clear or sample, on two
\* framebuffers and the backbuffer, and every kind of transfer step.
GeneralPalette ==
    { Render("A", KEEP3, BoundDraws(1), << >>, "UNDEFINED"),
      Render("A", KEEP3, BoundDraws(2), <<"B">>, "SHADER_READ_ONLY_OPTIMAL"),
      Render("B", <<"DONT_CARE", "KEEP", "KEEP">>, BoundDraws(1), <<"A">>, "COLOR_ATTACHMENT_OPTIMAL"),
      Render("A", CLEAR3, << >>, << >>, "COLOR_ATTACHMENT_OPTIMAL"),
      Render("B", CLEAR3, <<Cmd("CLEAR", 1, 0, 0)>> \o BoundDraws(1), << >>, "TRANSFER_SRC_OPTIMAL"),
      Render(NullFb, CLEAR3, BoundDraws(1), <<"A">>, "UNDEFINED"),
      Render("A", KEEP3, << >>, <<"B">>, "COLOR_ATTACHMENT_OPTIMAL"),
      Copy("A", "B", {"COLOR"}),
      Blit("B", "A", {"COLOR", "DEPTH"}),
      Readback("A", {"COLOR"}) }

\* Layout tags the framebuffers can have when a frame starts, with the driver.
FreshLayouts == [color |-> [fb \in Framebuffers |-> "UNDEFINED"],
                 depth |-> [fb \in Framebuffers |-> "UNDEFINED"]]
UsedLayouts ==
    [color |-> [fb \in Framebuffers |->
                  CASE fb = "A" -> "COLOR_ATTACHMENT_OPTIMAL"
                    [] fb = "B" -> "SHADER_READ_ONLY_OPTIMAL"
                    [] OTHER -> "TRANSFER_DST_OPTIMAL"],
     depth |-> [fb \in Framebuffers |->
                  CASE fb = "A" -> "DEPTH_STENCIL_ATTACHMENT_OPTIMAL"
                    [] fb = "B" -> "TRANSFER_SRC_OPTIMAL"
                    [] OTHER -> "DEPTH_STENCIL_ATTACHMENT_OPTIMAL"]]

Environments ==
    { [layouts |-> FreshLayouts, mali |-> FALSE],
      [layouts |-> UsedLayouts, mali |-> FALSE],
      [layouts |-> UsedLayouts, mali |-> TRUE] }

\* the masks EnableHacks is called with
HackMasks == {0, QUEUE_HACK_RENDERPASS_MERGE}

-----------------------------------------------------------------------------
(* Initial states *)

\* The runner after construction, with a recorded frame waiting and the
\* framebuffers as the environment env has them.
-----------------------------------------------------------------------------
(* TinySet<T, MaxFastSize> *)

\* the template parameter (8 where the runner uses the template)
MaxFastSize == 2

\* the values of T (pointers): enough of them to pass the inline capacity
TinyElements == 0..(MaxFastSize + 2)

NullVector == [allocated |-> FALSE, items |-> << >>]

\* a TinySet after construction; fastLookup_ has no initializer
TinySetConstructed(garbage) == [fast |-> garbage, count |-> 0, slow |-> NullVector]

\* for (int i = 0; i < fastCount; i++) if (fastLookup_[i] == t)
InFast(set, t) == \E i \in 0..(set.count - 1) : set.fast[i] = t

InSlow(set, t) == \E i \in 1..Len(set.slow.items) : set.slow.items[i] = t

\* an insertSlow that pushes without looking
InsertSlowNoScan(set, t) ==
    [set EXCEPT !.slow = [allocated |-> TRUE, items |-> Append(set.slow.items, t)]]

InsertSlow(set, t) ==
    IF ~set.slow.allocated
    THEN [set EXCEPT !.slow = [allocated |-> TRUE, items |-> <<t>>]]
    ELSE IF InSlow(set, t) THEN set
         ELSE [set EXCEPT !.slow.items = Append(@, t)]

TinySetInsert(set, t) ==
    IF InFast(set, t) THEN set
    ELSE IF set.count < MaxFastSize
         THEN [set EXCEPT !.fast[set.count] = t, !.count = @ + 1]
         ELSE InsertSlow(set, t)

\* contains(T t)
TinySetContains(set, t) ==
    \/ InFast(set, t)
    \/ set.slow.allocated /\ InSlow(set, t)

\* contains(const TinySet &otherSet)
TinySetContainsSet(set, otherSet) ==
    \/ \E i \in 0..(set.count - 1) : TinySetContains(otherSet, set.fast[i])
    \/ set.slow.allocated
          /\ \E i \in 1..Len(set.slow.items) : TinySetContains(otherSet, set.slow.items[i])

\* the TinySet held in the variables
TheSet == [fast |-> fastLookup_, count |-> fastCount, slow |-> slowLookup_]

\* what the inline array may hold when it is constructed
Garbage == [0..(MaxFastSize - 1) -> TinyElements]

InitTinySet(garbage) ==
    /\ fastLookup_ = garbage
    /\ fastCount = 0
    /\ slowLookup_ = NullVector
    /\ inserted = {}

-----------------------------------------------------------------------------

\* the runner after construction
InitRunner(frame, env, hacks) ==
    /\ steps = frame.steps
    /\ heap = frame.heap
    /\ recorded = [steps |-> frame.steps, heap |-> frame.heap, layouts |-> env.layouts]
    /\ prev = frame
    /\ pc = "idle"
    /\ idx = 0
    /\ hacksEnabled_ = hacks
    /\ colorLayout = env.layouts.color
    /\ depthLayout = env.layouts.depth
    /\ realLayout = env.layouts
    /\ mismatched = {}
    /\ cmdlog = << >>
    /\ asserts = {}
    /\ emitted = [id \in DOMAIN frame.heap |-> 0]
    /\ deleted = [id \in DOMAIN frame.heap |-> 0]
    /\ renderPasses_ = << >>
    /\ passObjs = << >>
    /\ deletedPasses = << >>
    /\ calls = << >>
    /\ backbufferRenderPass_ = 0
    /\ framebufferRenderPass_ = 0
    /\ readbackBuffer_ = 0
    /\ readbackMemory_ = 0
    /\ readbackBufferSize_ = 0
    /\ bufEvents = << >>
    /\ pixels = [k \in 0..(DestBytes - 1) |-> 0]
    /\ written = {}
    /\ copyLog = << >>
    /\ copyCall = NoCall
    /\ driverIsMali = env.mali

InitWith(frame, env, hacks) ==
    /\ InitRunner(frame, env, hacks)
    /\ InitTinySet([i \in 0..(MaxFastSize - 1) |-> 0])

MaxSteps == 3

Init ==
    \E list \in StepLists(GeneralPalette, MaxSteps), env \in Environments :
        InitWith(FrameOf(list), env, 0)

-----------------------------------------------------------------------------
(* Actions *)

\* void EnableHacks(uint32_t hacks)
EnableHacks(hacks) ==
    /\ pc = "idle"
    /\ hacksEnabled_' = hacks
    /\ UNCHANGED <<frameVars, layoutVars, cacheVars, readbackVars, copyVars, driverIsMali, tinyVars>>

\* the state the Perform* functions and GetRenderPass start from
ExecState ==
    [color |-> colorLayout, depth |-> depthLayout, log |-> << >>,
     cache |-> renderPasses_, objs |-> passObjs, asserts |-> asserts, calls |-> calls]

FramebufferPassKey ==
    RPKey("CLEAR", "CLEAR", "CLEAR", "COLOR_ATTACHMENT_OPTIMAL",
          "DEPTH_STENCIL_ATTACHMENT_OPTIMAL", "COLOR_ATTACHMENT_OPTIMAL")

\* CreateDeviceObjects: InitBackbufferRenderPass, then the precached pass
CreateDeviceObjects ==
    /\ pc = "idle"
    /\ backbufferRenderPass_ = 0
    /\ LET ex0 == [ExecState EXCEPT !.objs = Append(@, BackbufferPassObject)]
           ex1 == GetRenderPass(ex0, FramebufferPassKey)
       IN /\ backbufferRenderPass_' = Len(passObjs) + 1
          /\ framebufferRenderPass_' = GetRenderPassHandle(ex0, FramebufferPassKey)
          /\ renderPasses_' = ex1.cache
          /\ passObjs' = ex1.objs
          /\ calls' = ex1.calls
          /\ asserts' = ex1.asserts
    /\ UNCHANGED <<frameVars, colorLayout, depthLayout, realLayout, mismatched, cmdlog,
                   deletedPasses, readbackVars, copyVars, hacksEnabled_, driverIsMali, tinyVars>>

\* the part of a RunSteps action that leaves everything but the step list alone
RewriteOnly ==
    UNCHANGED <<recorded, idx, emitted, deleted, layoutVars, cacheVars, readbackVars,
                copyVars, hacksEnabled_, driverIsMali, tinyVars>>

\* RunSteps, the two loops before the hacks
RunStepsPrepare ==
    /\ pc = "idle"
    /\ backbufferRenderPass_ # 0
    /\ LET fr == DeadClearStage(steps, heap)
       IN /\ steps' = fr.steps
          /\ heap' = fr.heap
    /\ prev' = [steps |-> steps, heap |-> heap]
    /\ pc' = "mgs"
    /\ RewriteOnly

\* RunSteps: if (hacksEnabled_) { if (hacksEnabled_ & QUEUE_HACK_MGS2_ACID) ...
RunStepsMGS ==
    /\ pc = "mgs"
    /\ LET fr == MGSStage(hacksEnabled_, [steps |-> steps, heap |-> heap])
       IN /\ steps' = fr.steps
          /\ heap' = fr.heap
    /\ prev' = [steps |-> steps, heap |-> heap]
    /\ pc' = "sonic"
    /\ RewriteOnly

RunStepsSonic ==
    /\ pc = "sonic"
    /\ LET fr == SonicStage(hacksEnabled_, [steps |-> steps, heap |-> heap])
       IN /\ steps' = fr.steps
          /\ heap' = fr.heap
    /\ prev' = [steps |-> steps, heap |-> heap]
    /\ pc' = "merge"
    /\ RewriteOnly

RunStepsMerge ==
    /\ pc = "merge"
    /\ LET fr == MergeStage(hacksEnabled_, [steps |-> steps, heap |-> heap])
       IN /\ steps' = fr.steps
          /\ heap' = fr.heap
    /\ prev' = [steps |-> steps, heap |-> heap]
    /\ pc' = "exec"
    /\ idx' = 1
    /\ UNCHANGED <<recorded, emitted, deleted, layoutVars, cacheVars, readbackVars,
                   copyVars, hacksEnabled_, driverIsMali, tinyVars>>

\* one iteration of the execution loop of RunSteps; allocOk: whether
\* vkAllocateMemory succeeds should the step resize the staging buffer
RunStepsPerform(allocOk) ==
    /\ pc = "exec"
    /\ idx <= Len(steps)
    /\ LET step == heap[steps[idx]]
           rb0 == [buffer |-> readbackBuffer_, memory |-> readbackMemory_,
                   size |-> readbackBufferSize_, events |-> bufEvents]
           rb1 == IF Resizes(step) THEN ResizeReadbackBuffer(rb0, ReadbackBytes(step), allocOk)
                  ELSE rb0
           ex1 == PerformStep(ExecState, step, driverIsMali, backbufferRenderPass_, rb1.buffer)
           g == ReplayLog([real |-> realLayout, bad |-> mismatched], ex1.log, ex1.objs, 1)
       IN /\ colorLayout' = ex1.color
          /\ depthLayout' = ex1.depth
          /\ cmdlog' = cmdlog \o ex1.log
          /\ asserts' = ex1.asserts
          /\ renderPasses_' = ex1.cache
          /\ passObjs' = ex1.objs
          /\ calls' = ex1.calls
          /\ realLayout' = g.real
          /\ mismatched' = g.bad
          /\ readbackBuffer_' = rb1.buffer
          /\ readbackMemory_' = rb1.memory
          /\ readbackBufferSize_' = rb1.size
          /\ bufEvents' = rb1.events
          /\ emitted' = [emitted EXCEPT ![steps[idx]] = @ + 1]
    /\ idx' = idx + 1
    /\ UNCHANGED <<steps, heap, recorded, prev, pc, deleted, deletedPasses, copyVars,
                   backbufferRenderPass_, framebufferRenderPass_, hacksEnabled_, driverIsMali, tinyVars>>

\* the delete loop that ends RunSteps
RunStepsDelete ==
    /\ pc = "exec"
    /\ idx > Len(steps)
    /\ deleted' = [id \in DOMAIN deleted |->
                     deleted[id] + Cardinality({k \in 1..Len(steps) : steps[k] = id})]
    /\ pc' = "done"
    /\ UNCHANGED <<steps, heap, recorded, prev, idx, emitted, layoutVars, cacheVars,
                   readbackVars, copyVars, hacksEnabled_, driverIsMali, tinyVars>>

\* the handles of a set in the order renderPasses_.Iterate visits them
RECURSIVE Ascending(_)
Ascending(S) == IF S = {} THEN << >> ELSE <<SetMin(S)>> \o Ascending(S \ {SetMin(S)})

\* a DestroyDeviceObjects that queues the passes and keeps the map
DestroyDeviceObjectsKeepsCache ==
    /\ pc \in {"idle", "done"}
    /\ backbufferRenderPass_ # 0
    /\ bufEvents' = bufEvents \o <<BufEvent("QueueDeleteDeviceMemory", readbackMemory_),
                                    BufEvent("QueueDeleteBuffer", readbackBuffer_)>>
    /\ readbackBufferSize_' = 0
    /\ deletedPasses' = deletedPasses
                        \o Ascending({renderPasses_[key] : key \in DOMAIN renderPasses_})
                        \o <<backbufferRenderPass_>>
    /\ backbufferRenderPass_' = 0
    /\ calls' = << >>
    /\ UNCHANGED <<frameVars, layoutVars, passObjs, framebufferRenderPass_, copyVars,
                   renderPasses_, readbackBuffer_, readbackMemory_, hacksEnabled_, driverIsMali, tinyVars>>

\* DestroyDeviceObjects. The two staging handles and framebufferRenderPass_
\* are not reset. calls (ghost) starts afresh with the emptied cache.
DestroyDeviceObjects ==
    /\ pc \in {"idle", "done"}
    /\ backbufferRenderPass_ # 0
    /\ bufEvents' = bufEvents \o <<BufEvent("QueueDeleteDeviceMemory", readbackMemory_),
                                    BufEvent("QueueDeleteBuffer", readbackBuffer_)>>
    /\ readbackBufferSize_' = 0
    /\ deletedPasses' = deletedPasses
                        \o Ascending({renderPasses_[key] : key \in DOMAIN renderPasses_})
                        \o <<backbufferRenderPass_>>
    /\ renderPasses_' = << >>
    /\ backbufferRenderPass_' = 0
    /\ calls' = << >>
    /\ UNCHANGED <<frameVars, layoutVars, passObjs, framebufferRenderPass_, copyVars,
                   readbackBuffer_, readbackMemory_, hacksEnabled_, driverIsMali, tinyVars>>

\* a call of GetRenderPass from outside the execution loop (LoadCache, the
\* pipeline code), with the six fields of the key
CallGetRenderPass(key) ==
    /\ pc = "idle"
    /\ backbufferRenderPass_ # 0
    /\ LET ex1 == GetRenderPass(ExecState, key)
       IN /\ renderPasses_' = ex1.cache
          /\ passObjs' = ex1.objs
          /\ calls' = ex1.calls
          /\ asserts' = ex1.asserts
    /\ UNCHANGED <<frameVars, colorLayout, depthLayout, realLayout, mismatched, cmdlog,
                   deletedPasses, backbufferRenderPass_, framebufferRenderPass_,
                   readbackVars, copyVars, hacksEnabled_, driverIsMali, tinyVars>>

\* one RunSteps call, step by step
RunSteps ==
    \/ RunStepsPrepare
    \/ RunStepsMGS
    \/ RunStepsSonic
    \/ RunStepsMerge
    \/ \E allocOk \in BOOLEAN : RunStepsPerform(allocOk)
    \/ RunStepsDelete

Next ==
    \/ \E hacks \in HackMasks : EnableHacks(hacks)
    \/ CreateDeviceObjects
    \/ RunSteps

Spec == Init /\ [][Next]_vars

-----------------------------------------------------------------------------
(* Frames of the workloads the two queue hacks were written for, with the   *)
(* hack enabled                                                             *)

\* copy, render(1), copy, render(1), ... : copies to A, one-draw renders that
\* sample A, a blit, and a two-draw render that ends the sequence
MGSCopyPalette ==
    { Copy("B", "A", {"COLOR"}),
      Render("C", KEEP3, BoundDraws(1), <<"A">>, "COLOR_ATTACHMENT_OPTIMAL"),
      Blit("A", "B", {"COLOR"}),
      Render("C", KEEP3, BoundDraws(2), <<"A">>, "SHADER_READ_ONLY_OPTIMAL") }

\* depal, target, depal, target, ... : one-draw renders to a depal buffer A
\* and to a target B that samples it, a one-draw render to another buffer,
\* and a copy
MGSDepalPalette ==
    { Render("A", <<"DONT_CARE", "KEEP", "KEEP">>, BoundDraws(1), <<"B">>, "SHADER_READ_ONLY_OPTIMAL"),
      Render("B", KEEP3, BoundDraws(1), <<"A">>, "COLOR_ATTACHMENT_OPTIMAL"),
      Render("C", <<"DONT_CARE", "KEEP", "KEEP">>, BoundDraws(1), << >>, "COLOR_ATTACHMENT_OPTIMAL"),
      Copy("A", "A", {"COLOR"}) }

\* render(3), render(1), render(6), render(1), ... alternating between A and B
SonicPalette ==
    { Render("A", KEEP3, BoundDraws(3), << >>, "SHADER_READ_ONLY_OPTIMAL"),
      Render("B", KEEP3, BoundDraws(1), <<"A">>, "COLOR_ATTACHMENT_OPTIMAL"),
      Render("A", KEEP3, BoundDraws(6), <<"B">>, "SHADER_READ_ONLY_OPTIMAL"),
      Copy("A", "B", {"COLOR"}) }

MaxCopySteps == 6
MaxDepalSteps == 5
MaxSonicSteps == 6

GameEnvironment == [layouts |-> UsedLayouts, mali |-> FALSE]

InitMGS ==
    \E list \in StepLists(MGSCopyPalette, MaxCopySteps) \cup StepLists(MGSDepalPalette, MaxDepalSteps) :
        InitWith(FrameOf(list), GameEnvironment, QUEUE_HACK_MGS2_ACID)

InitSonic ==
    \E list \in StepLists(SonicPalette, MaxSonicSteps) :
        InitWith(FrameOf(list), GameEnvironment, QUEUE_HACK_SONIC)

NextFrame ==
    \/ CreateDeviceObjects
    \/ RunSteps

SpecMGS == InitMGS /\ [][NextFrame]_vars

SpecSonic == InitSonic /\ [][NextFrame]_vars

-----------------------------------------------------------------------------
(* Frames on which the queue hacks fire, run under every mask EnableHacks   *)
(* can be given                                                             *)

\* a sequence the first loop of ApplyMGSHack rewrites
CopyFrame ==
    << Copy("B", "A", {"COLOR"}),
       Render("C", KEEP3, BoundDraws(1), <<"A">>, "COLOR_ATTACHMENT_OPTIMAL"),
       Copy("B", "A", {"COLOR"}),
       Render("C", KEEP3, BoundDraws(2), <<"A">>, "SHADER_READ_ONLY_OPTIMAL") >>

\* a sequence the second loop of ApplyMGSHack rewrites
DepalFrame ==
    << Render("A", <<"DONT_CARE", "KEEP", "KEEP">>, BoundDraws(1), <<"B">>, "SHADER_READ_ONLY_OPTIMAL"),
       Render("B", KEEP3, BoundDraws(1), <<"A">>, "COLOR_ATTACHMENT_OPTIMAL"),
       Render("A", <<"DONT_CARE", "KEEP", "KEEP">>, BoundDraws(1), <<"B">>, "SHADER_READ_ONLY_OPTIMAL"),
       Render("B", KEEP3, BoundDraws(1), <<"A">>, "COLOR_ATTACHMENT_OPTIMAL"),
       Render("C", <<"DONT_CARE", "KEEP", "KEEP">>, BoundDraws(1), << >>, "COLOR_ATTACHMENT_OPTIMAL") >>

\* a sequence ApplySonicHack rewrites
SonicFrame ==
    << Render("A", KEEP3, BoundDraws(3), << >>, "SHADER_READ_ONLY_OPTIMAL"),
       Render("B", KEEP3, BoundDraws(1), <<"A">>, "COLOR_ATTACHMENT_OPTIMAL"),
       Render("A", KEEP3, BoundDraws(6), <<"B">>, "SHADER_READ_ONLY_OPTIMAL"),
       Render("B", KEEP3, BoundDraws(1), <<"A">>, "COLOR_ATTACHMENT_OPTIMAL"),
       Render("B", KEEP3, BoundDraws(1), <<"A">>, "COLOR_ATTACHMENT_OPTIMAL") >>

\* a sequence ApplyRenderPassMerge rewrites, and no other hack
MergeFrame ==
    << Render("A", KEEP3, BoundDraws(1), << >>, "COLOR_ATTACHMENT_OPTIMAL"),
       Render("A", KEEP3, BoundDraws(2), <<"B">>, "SHADER_READ_ONLY_OPTIMAL") >>

FrameParts == {CopyFrame, DepalFrame, SonicFrame, MergeFrame}

RECURSIVE Flatten(_)
Flatten(parts) == IF parts = << >> THEN << >> ELSE Head(parts) \o Flatten(Tail(parts))

MaxParts == 2
MaxMask == 15

\* frames of up to MaxParts such sequences, one after the other
HackFrames == {Flatten(parts) : parts \in StepLists(FrameParts, MaxParts)}

\* three renders in a row to one framebuffer, with 2, 3 and 1 draws, that
\* sample nothing
TripleFrames ==
    { << Render(fb, first, BoundDraws(2), << >>, "COLOR_ATTACHMENT_OPTIMAL"),
         Render(fb, KEEP3, BoundDraws(3), << >>, "SHADER_READ_ONLY_OPTIMAL"),
         Render(fb, last, BoundDraws(1), << >>, "COLOR_ATTACHMENT_OPTIMAL") >> :
      fb \in Framebuffers, first \in {KEEP3, CLEAR3}, last \in {KEEP3, CLEAR3} }

InitHacks ==
    \E list \in HackFrames \cup TripleFrames : InitWith(FrameOf(list), GameEnvironment, 0)

NextHacks ==
    \/ \E hacks \in 0..MaxMask : EnableHacks(hacks)
    \/ CreateDeviceObjects
    \/ RunSteps

SpecHacks == InitHacks /\ [][NextHacks]_vars

-----------------------------------------------------------------------------
(* Frames of transfers and readbacks, no hack enabled                       *)

\* a step template with the extent of its source rectangle set
Sized(t, w, h) == [t EXCEPT !.width = w, !.height = h]

\* copies, blits and readbacks of every aspect between A and B, a copy of A
\* onto itself, a render to A, and a render that samples A twice
TransferPalette ==
    { Render("A", KEEP3, BoundDraws(1), << >>, "COLOR_ATTACHMENT_OPTIMAL"),
      Render("C", KEEP3, BoundDraws(1), <<"A", "A">>, "COLOR_ATTACHMENT_OPTIMAL"),
      Copy("A", "B", {"COLOR"}),
      Copy("A", "B", {"COLOR", "DEPTH"}),
      Blit("A", "B", {"COLOR"}),
      Blit("B", "A", {"DEPTH", "STENCIL"}),
      Copy("A", "A", {"COLOR"}),
      Readback("A", {"COLOR"}),
      Sized(Readback("A", {"DEPTH"}), 2, 1),
      Sized(Readback(NullFb, {"COLOR"}), 100, 100),
      ReadbackImage }

TransferEnvironments ==
    { [layouts |-> FreshLayouts, mali |-> FALSE],
      [layouts |-> UsedLayouts, mali |-> FALSE] }

MaxTransferSteps == 3

InitTransfer ==
    \E list \in StepLists(TransferPalette, MaxTransferSteps), env \in TransferEnvironments :
        InitWith(FrameOf(list), env, 0)

SpecTransfer == InitTransfer /\ [][NextFrame]_vars

-----------------------------------------------------------------------------
(* Frames with empty clear passes *)

\* a step with the clear values (c, d, st) and numReads n
Clearing(t, c, d, st, n) ==
    [t EXCEPT !.clearColor = c, !.clearDepth = d, !.clearStencil = st, !.numReads = n]

ClearPalette ==
    { Clearing(Render("A", CLEAR3, << >>, << >>, "COLOR_ATTACHMENT_OPTIMAL"), 1, 2, 3, 0),
      Clearing(Render("A", CLEAR3, << >>, << >>, "COLOR_ATTACHMENT_OPTIMAL"), 4, 5, 6, 1),
      Render("A", KEEP3, BoundDraws(1), << >>, "COLOR_ATTACHMENT_OPTIMAL"),
      Clearing(Render("A", <<"CLEAR", "KEEP", "DONT_CARE">>, BoundDraws(1), << >>,
                      "COLOR_ATTACHMENT_OPTIMAL"), 7, 0, 0, 0),
      Render("B", KEEP3, BoundDraws(1), << >>, "COLOR_ATTACHMENT_OPTIMAL"),
      Copy("A", "B", {"COLOR"}),
      Blit("A", "B", {"COLOR"}),
      Readback("A", {"COLOR"}) }

MaxClearSteps == 4

\* a step list handed to RunSteps with the numReads its steps carry
RawFrameOf(list) ==
    [steps |-> [i \in 1..Len(list) |-> i],
     heap |-> [id \in 1..Len(list) |-> MakeStep(list[id], id)]]

\* frames as the recorder counts their reads, and frames with the counts as given
InitClear ==
    \E list \in StepLists(ClearPalette, MaxClearSteps), counted \in BOOLEAN :
        InitWith(IF counted THEN FrameOf(list) ELSE RawFrameOf(list),
                 [layouts |-> UsedLayouts, mali |-> FALSE], 0)

SpecClear == InitClear /\ [][NextFrame]_vars

-----------------------------------------------------------------------------
(* Frames with a readback, and the caller fetching the pixels afterwards *)

\* the caller's CopyReadbackBuffer call, after the frame was run and waited for
CopyReadbackBuffer(width, height, srcFormat, destFormat, pixelStride, mapped, mapOk, coherent, ndebug) ==
    /\ pc = "done"
    /\ ~copyCall.made
    /\ LET r == CopyReadbackBufferBody([pixels |-> pixels, written |-> written, log |-> copyLog],
                                       readbackMemory_, mapped, width, height, srcFormat,
                                       destFormat, pixelStride, mapOk, coherent, ndebug)
       IN /\ pixels' = r.pixels
          /\ written' = r.written
          /\ copyLog' = r.log
    /\ copyCall' = [width |-> width, height |-> height, srcFormat |-> srcFormat,
                    destFormat |-> destFormat, pixelStride |-> pixelStride,
                    mapped |-> mapped, made |-> TRUE]
    /\ UNCHANGED <<frameVars, layoutVars, cacheVars, readbackVars, hacksEnabled_, driverIsMali, tinyVars>>

ReadbackPalette == {Readback("A", {"COLOR"}), Copy("A", "B", {"COLOR"})}

MaxReadbackSteps == 2

InitReadback ==
    \E list \in StepLists(ReadbackPalette, MaxReadbackSteps) :
        InitWith(FrameOf(list), [layouts |-> UsedLayouts, mali |-> FALSE], 0)

NextReadback ==
    \/ CreateDeviceObjects
    \/ RunSteps
    \/ \E width \in 0..MaxWidth, height \in 0..MaxHeight, srcFormat \in DataFormats,
          destFormat \in DataFormats, mapped \in StagedPatterns,
          mapOk \in BOOLEAN, coherent \in BOOLEAN, ndebug \in BOOLEAN :
          \E pixelStride \in width..MaxStride :
             CopyReadbackBuffer(width, height, srcFormat, destFormat, pixelStride,
                                mapped, mapOk, coherent, ndebug)

SpecReadback == InitReadback /\ [][NextReadback]_vars

-----------------------------------------------------------------------------
(* The pass-object cache on its own: device objects are created and        *)
(* destroyed, and GetRenderPass is called with keys of CacheKeys            *)

CacheKeys ==
    { FramebufferPassKey,
      RPKey("KEEP", "KEEP", "KEEP", "COLOR_ATTACHMENT_OPTIMAL",
            "DEPTH_STENCIL_ATTACHMENT_OPTIMAL", "COLOR_ATTACHMENT_OPTIMAL"),
      RPKey("CLEAR", "CLEAR", "CLEAR", "UNDEFINED", "UNDEFINED", "SHADER_READ_ONLY_OPTIMAL"),
      RPKey("CLEAR", "CLEAR", "CLEAR", "COLOR_ATTACHMENT_OPTIMAL",
            "DEPTH_STENCIL_ATTACHMENT_OPTIMAL", "SHADER_READ_ONLY_OPTIMAL"),
      RPKey("DONT_CARE", "KEEP", "CLEAR", "SHADER_READ_ONLY_OPTIMAL",
            "TRANSFER_SRC_OPTIMAL", "TRANSFER_SRC_OPTIMAL") }

MaxCalls == 4
MaxPasses == 8

InitCache == InitWith(FrameOf(<< >>), [layouts |-> FreshLayouts, mali |-> FALSE], 0)

NextCache ==
    \/ CreateDeviceObjects /\ Len(passObjs) + 2 <= MaxPasses
    \/ DestroyDeviceObjects
    \/ \E key \in CacheKeys : CallGetRenderPass(key) /\ Len(calls) < MaxCalls

SpecCache == InitCache /\ [][NextCache]_vars

-----------------------------------------------------------------------------
(* Properties *)

\* the keys GetRenderPass was called with since the cache was last empty
RequestedKeys == {calls[k].key : k \in 1..Len(calls)}

\* the pass objects created through the cache and not queued for deletion
CachedPassObjects ==
    {h \in 1..Len(passObjs) :
        /\ ~passObjs[h].backbuffer
        /\ \A k \in 1..Len(deletedPasses) : deletedPasses[k] # h}

\* C2: between CreateDeviceObjects and DestroyDeviceObjects, two GetRenderPass
\* calls with equal keys return the same handle and one object exists per
\* distinct key requested; a call whose key is present creates no object and
\* leaves the cache as it is.
C2_CacheState ==
    /\ \A i, j \in 1..Len(calls) :
          calls[i].key = calls[j].key => calls[i].handle = calls[j].handle
    /\ \A i, j \in 1..Len(calls) :
          calls[i].key # calls[j].key => calls[i].handle # calls[j].handle
    /\ Cardinality({k \in 1..Len(calls) : calls[k].created}) = Cardinality(RequestedKeys)
    /\ Cardinality(CachedPassObjects) = Cardinality(RequestedKeys)
    /\ DOMAIN renderPasses_ = RequestedKeys
    /\ \A key \in RequestedKeys :
          /\ renderPasses_[key] \in CachedPassObjects
          /\ passObjs[renderPasses_[key]].key = key

C2_CacheHit ==
    \A key \in CacheKeys :
        (CallGetRenderPass(key) /\ CacheGet(renderPasses_, key) # 0)
            => /\ renderPasses_' = renderPasses_
               /\ passObjs' = passObjs
               /\ calls'[Len(calls')].handle = renderPasses_[key]
               /\ ~calls'[Len(calls')].created

C2_CacheIdempotent == [](C2_CacheState) /\ [][C2_CacheHit]_vars

\* the same key was requested twice and another key between, after the cache
\* had been destroyed and created again
C2_Witness ==
    /\ Len(deletedPasses) > 0
    /\ backbufferRenderPass_ # 0
    /\ Len(calls) = MaxCalls
    /\ calls[2].key = calls[4].key
    /\ calls[3].key # calls[2].key
    /\ calls[1].key # calls[2].key
    /\ ~calls[4].created

\* the emitted commands of kind op on framebuffer images
EmittedOn(op) == {k \in 1..Len(cmdlog) : cmdlog[k].op = op /\ cmdlog[k].fb \in Framebuffers}

\* C1: between step executions the color and depth layout tag of every
\* framebuffer equals the layout its image really has (replayed from the
\* newLayout of the emitted barriers and the final attachment layouts of the
\* begun passes), and no barrier or pass was emitted with an oldLayout /
\* initial layout other than the real layout at that moment.
C1_LayoutTagInvariant ==
    /\ \A fb \in Framebuffers :
          /\ colorLayout[fb] = realLayout.color[fb]
          /\ depthLayout[fb] = realLayout.depth[fb]
    /\ mismatched = {}

\* a frame of three steps has run, emitting barriers and render passes that
\* moved a color and a depth image to another layout
C1_Witness ==
    /\ pc = "done"
    /\ Len(steps) = MaxSteps
    /\ EmittedOn("vkCmdPipelineBarrier") # {}
    /\ EmittedOn("vkCmdBeginRenderPass") # {}
    /\ EmittedOn("vkCmdCopyImage") # {}
    /\ realLayout.color["A"] = "TRANSFER_SRC_OPTIMAL"
    /\ realLayout.depth["A"] = "TRANSFER_DST_OPTIMAL"

\* every render target: the framebuffers and the backbuffer
Targets == Framebuffers \cup {NullFb}

\* the commands of the non-skipped render steps on fb from slot k on, in list order
RECURSIVE CommandsOn(_, _, _, _)
CommandsOn(st, hp, fb, k) ==
    IF k > Len(st) THEN << >>
    ELSE (IF hp[st[k]].stepType = "RENDER" /\ hp[st[k]].framebuffer = fb
          THEN hp[st[k]].commands ELSE << >>)
         \o CommandsOn(st, hp, fb, k + 1)

\* the steps a rewrite pass turned from RENDER into RENDER_SKIP
SkippedBy(before, hp) ==
    {id \in DOMAIN hp : before.heap[id].stepType = "RENDER" /\ hp[id].stepType = "RENDER_SKIP"}

\* the state right after RunSteps applied (or skipped) ApplyRenderPassMerge;
\* prev is the list it was applied to
AfterMerge == pc = "exec" /\ idx = 1

\* C3: ApplyRenderPassMerge leaves, for every framebuffer, the concatenation
\* of the command lists of the non-skipped render steps on it as it was: no
\* command is dropped, duplicated or reordered.
C3_MergeKeepsCommands ==
    AfterMerge =>
        \A fb \in Targets :
            CommandsOn(steps, heap, fb, 1) = CommandsOn(prev.steps, prev.heap, fb, 1)

\* the merge pass has just absorbed a step with commands into another
C3_Witness ==
    /\ pc = "exec" /\ idx = 1
    /\ MergeEnabled(hacksEnabled_)
    /\ \E id \in SkippedBy(prev, heap) :
          /\ Len(heap[id].commands) > 0
          /\ \E into \in DOMAIN heap :
                Len(heap[into].commands) = Len(prev.heap[into].commands) + Len(heap[id].commands)

\* step s reads framebuffer fb as it is, or a transfer touches it
TouchesTarget(s, fb) ==
    \/ s.stepType = "RENDER" /\ fb \in s.dependencies
    \/ s.stepType \in {"COPY", "BLIT"} /\ (s.src = fb \/ s.dst = fb)
    \/ s.stepType = "READBACK" /\ s.src = fb

\* the slots whose render step a pass from (st, hp) to hp2 marked RENDER_SKIP
AbsorbedSlots(st, hp, hp2) ==
    {j \in 1..Len(st) : hp[st[j]].stepType = "RENDER" /\ hp2[st[j]].stepType = "RENDER_SKIP"}

\* the slots before j with a render step on the target of slot j that is
\* still a render step in hp2; the last of them is the step that absorbed j
SurvivorsBefore(st, hp, hp2, j) ==
    {i \in 1..(j - 1) : /\ hp2[st[i]].stepType = "RENDER"
                        /\ hp[st[i]].framebuffer = hp[st[j]].framebuffer}

SetMax(S) == CHOOSE x \in S : \A y \in S : x >= y

\* C4: when ApplyRenderPassMerge absorbs the render step in slot j into the
\* earlier slot i on framebuffer F, no slot k with i < k <= j holds a render
\* step that depends on F, a copy or blit from or to F, or a readback of F.
C4_MergeStopsAtHazard ==
    AfterMerge =>
        \A j \in AbsorbedSlots(steps, prev.heap, heap) :
            /\ SurvivorsBefore(steps, prev.heap, heap, j) # {}
            /\ \A k \in (SetMax(SurvivorsBefore(steps, prev.heap, heap, j)) + 1)..j :
                  ~TouchesTarget(prev.heap[steps[k]], prev.heap[steps[j]].framebuffer)

\* the merge pass absorbed the third step into the first across a step on
\* another target
C4_Witness ==
    /\ pc = "exec" /\ idx = 1
    /\ MergeEnabled(hacksEnabled_)
    /\ Len(steps) = 3
    /\ AbsorbedSlots(steps, prev.heap, heap) = {3}
    /\ heap[steps[2]].stepType \in {"RENDER", "COPY", "BLIT", "READBACK"}
    /\ heap[steps[1]].stepType = "RENDER"
    /\ heap[steps[1]].framebuffer = heap[steps[3]].framebuffer

\* the list st executed step by step from ex, as the execution loop does
RECURSIVE ExecuteFrom(_, _, _, _, _)
ExecuteFrom(ex, st, hp, mali, k) ==
    IF k > Len(st) THEN ex
    ELSE ExecuteFrom(PerformStep(ex, hp[st[k]], mali, 1, 0), st, hp, mali, k + 1)

\* the recorded list executed with every rewrite but the final-layout
\* normalization disabled
Unoptimized ==
    ExecuteFrom([color |-> recorded.layouts.color, depth |-> recorded.layouts.depth,
                 log |-> << >>, cache |-> << >>, objs |-> <<BackbufferPassObject>>,
                 asserts |-> {}, calls |-> << >>],
                recorded.steps, NormalizeAll(recorded.steps, recorded.heap), driverIsMali, 1)

\* C5: when RunSteps has returned, the color layout tag of every framebuffer
\* is the tag that executing the recorded list without rewrites leaves (so a
\* framebuffer ends in the final layout of the last step absorbed on it).
C5_FusionsKeepFinalLayouts ==
    pc = "done" => \A fb \in Framebuffers : colorLayout[fb] = Unoptimized.color[fb]

\* the recorded step a command comes from (MakeStep numbers commands by step)
OriginOf(c) == c.uid \div 10

\* The recorded steps whose work the list does, in execution order: a render
\* step does its commands one after the other, a copy or blit itself.
RECURSIVE WorkOrder(_, _, _)
WorkOrder(st, hp, k) ==
    IF k > Len(st) THEN << >>
    ELSE LET s == hp[st[k]]
         IN (CASE s.stepType = "RENDER" -> [n \in 1..Len(s.commands) |-> OriginOf(s.commands[n])]
               [] s.stepType \in {"COPY", "BLIT"} -> <<s.id>>
               [] OTHER -> << >>)
            \o WorkOrder(st, hp, k + 1)

\* the places of the work of recorded step id in an execution order
PlacesOf(order, id) == {n \in 1..Len(order) : order[n] = id}

\* step s writes framebuffer fb
WritesTo(s, fb) ==
    \/ s.stepType = "RENDER" /\ s.framebuffer = fb
    \/ s.stepType \in {"COPY", "BLIT"} /\ s.dst = fb

\* C6: no rewrite violates a recorded dependency: for a recorded step S whose
\* dependency set contains D and a recorded step W that writes D, the work of
\* W is done before the work of S in the optimized list if and only if W was
\* recorded before S.
C6_RewritesKeepDependencies ==
    AfterMerge =>
        LET order == WorkOrder(steps, heap, 1)
        IN \A w, s \in DOMAIN recorded.heap :
              (/\ w # s
               /\ \E fb \in Framebuffers :
                     fb \in recorded.heap[s].dependencies /\ WritesTo(recorded.heap[w], fb)
               /\ PlacesOf(order, w) # {}
               /\ PlacesOf(order, s) # {})
              => IF w < s
                 THEN \A a \in PlacesOf(order, w), b \in PlacesOf(order, s) : a < b
                 ELSE \A a \in PlacesOf(order, w), b \in PlacesOf(order, s) : b < a

\* the slot of the list st that holds the step object id (0: none)
SlotOf(st, id) == IF \E k \in 1..Len(st) : st[k] = id
                  THEN SetMin({k \in 1..Len(st) : st[k] = id}) ELSE 0

\* the step objects a pass from (st, hp) to (st2, hp2) marked, changed or moved
Rewritten(st, hp, st2, hp2) ==
    {id \in DOMAIN hp : hp2[id] # hp[id] \/ SlotOf(st2, id) # SlotOf(st, id)}

\* What the depal / target pattern asks of the step in slot k of a sequence
\* that starts in slot i: a one-draw render step, DONT_CARE on the depal
\* buffer at even distance, KEEP on the target at odd distance.
DepalShape(st, hp, i, k) ==
    LET s == hp[st[k]]
    IN /\ s.stepType = "RENDER"
       /\ s.numDraws = 1
       /\ IF (k - i) % 2 = 0
          THEN s.color = "DONT_CARE" /\ s.framebuffer = hp[st[i]].framebuffer
          ELSE s.color = "KEEP" /\ s.framebuffer = hp[st[i + 1]].framebuffer

\* the slots where a depal, target, depal sequence starts
DepalStarts(st, hp) ==
    {i \in 1..(Len(st) - 3) :
        \A k \in i..(i + 2) : /\ hp[st[k]].stepType = "RENDER"
                               /\ hp[st[k]].numDraws = 1
                               /\ hp[st[k]].color = (IF k = i + 1 THEN "KEEP" ELSE "DONT_CARE")}

\* What the Sonic pattern asks of the step in slot k of a sequence that
\* starts in slot i.
SonicShape(st, hp, i, k) ==
    LET s == hp[st[k]]
    IN /\ s.stepType = "RENDER"
       /\ IF (k - i) % 2 = 0
          THEN s.framebuffer = hp[st[i]].framebuffer /\ s.numDraws \in {3, 6}
          ELSE s.framebuffer = hp[st[i + 1]].framebuffer /\ s.numDraws = 1

\* the list between the two loops of ApplyMGSHack, when MGS ran on prev
BetweenMGSLoops == MGSCopyLoop(prev.steps, prev.heap)

\* the slots where a render(3), render(1), render(6), render(1) sequence starts
SonicStarts(st, hp) ==
    {i \in 1..(Len(st) - 4) :
        /\ \A k \in i..(i + 3) : hp[st[k]].stepType = "RENDER"
        /\ hp[st[i]].numDraws = 3 /\ hp[st[i + 1]].numDraws = 1
        /\ hp[st[i + 2]].numDraws = 6 /\ hp[st[i + 3]].numDraws = 1
        /\ hp[st[i]].framebuffer = hp[st[i + 2]].framebuffer
        /\ hp[st[i + 1]].framebuffer = hp[st[i + 3]].framebuffer}

\* the second loop of ApplyMGSHack rewrote only steps of a run, from the
\* start of the first depal sequence on, that all have the shape asked for
DepalRewritesOnlyMatches ==
    (pc = "sonic" /\ MGSEnabled(hacksEnabled_)) =>
        LET st == BetweenMGSLoops.steps
            hp == BetweenMGSLoops.heap
        IN \A id \in Rewritten(st, hp, steps, heap) :
              /\ DepalStarts(st, hp) # {}
              /\ SlotOf(st, id) >= SetMin(DepalStarts(st, hp))
              /\ \A k \in SetMin(DepalStarts(st, hp))..SlotOf(st, id) :
                    DepalShape(st, hp, SetMin(DepalStarts(st, hp)), k)

\* ApplySonicHack rewrote only steps of a run, from the start of the first
\* Sonic sequence on, that all have the shape asked for
SonicRewritesOnlyMatches ==
    (pc = "merge" /\ SonicEnabled(hacksEnabled_)) =>
        \A id \in Rewritten(prev.steps, prev.heap, steps, heap) :
            /\ SonicStarts(prev.steps, prev.heap) # {}
            /\ SlotOf(prev.steps, id) >= SetMin(SonicStarts(prev.steps, prev.heap))
            /\ \A k \in SetMin(SonicStarts(prev.steps, prev.heap))..SlotOf(prev.steps, id) :
                  SonicShape(prev.steps, prev.heap, SetMin(SonicStarts(prev.steps, prev.heap)), k)

\* C7: the depal / target fusion of ApplyMGSHack and ApplySonicHack never
\* rewrite partially: every step they mark RENDER_SKIP, move or change is a
\* render step that has the shape its place in the sequence asks for (step
\* type, draw count, color load action, framebuffer), as have all steps of the
\* sequence before it; every other step is left as it was.
C7_FusionsRewriteOnlyMatches ==
    DepalRewritesOnlyMatches /\ SonicRewritesOnlyMatches

-----------------------------------------------------------------------------
(* Hack gating *)

\* m AND 11: the bits of QUEUE_HACK_MGS2_ACID, QUEUE_HACK_SONIC and
\* QUEUE_HACK_RENDERPASS_MERGE that are set in m
KnownBits(m) == (m % 2) + 2 * ((m \div 2) % 2) + 8 * ((m \div 8) % 2)

\* the list rewritten by normalization and dead-clear fold, then by
\* ApplyMGSHack iff bit 1 of m, ApplySonicHack iff bit 2, ApplyRenderPassMerge
\* iff bit 8, in this order
GatedRewrite(m) ==
    LET a == [steps |-> recorded.steps,
              heap |-> DeadClearPass(recorded.steps, NormalizeAll(recorded.steps, recorded.heap))]
        b == IF m % 2 = 1 THEN ApplyMGSHack(a.steps, a.heap) ELSE a
        c == IF (m \div 2) % 2 = 1 THEN ApplySonicHack(b.steps, b.heap) ELSE b
    IN IF (m \div 8) % 2 = 1
       THEN [steps |-> c.steps, heap |-> ApplyRenderPassMerge(c.steps, c.heap)] ELSE c

\* the command stream executing a rewritten list emits, from the state
\* CreateDeviceObjects leaves
StreamOf(fr) ==
    LET ex0 == [color |-> recorded.layouts.color, depth |-> recorded.layouts.depth,
                log |-> << >>, cache |-> << >>, objs |-> <<BackbufferPassObject>>,
                asserts |-> {}, calls |-> << >>]
    IN ExecuteFrom(GetRenderPass(ex0, FramebufferPassKey), fr.steps, fr.heap, driverIsMali, 1).log

\* C8: the list RunSteps executes is the recorded list rewritten by the two
\* loops before the hacks and then by ApplyMGSHack iff bit 1 of the mask is
\* set, ApplySonicHack iff bit 2, ApplyRenderPassMerge iff bit 8, in that
\* order; the list and the emitted command stream are those of the mask
\* AND 11; with mask 0 only normalization and dead-clear fold rewrite.
C8_HackGating ==
    /\ pc \in {"exec", "done"} =>
          /\ [steps |-> steps, heap |-> heap] = GatedRewrite(hacksEnabled_)
          /\ [steps |-> steps, heap |-> heap] = GatedRewrite(KnownBits(hacksEnabled_))
          /\ hacksEnabled_ = 0 =>
                /\ steps = recorded.steps
                /\ heap = DeadClearPass(recorded.steps, NormalizeAll(recorded.steps, recorded.heap))
    /\ pc = "done" => cmdlog = StreamOf(GatedRewrite(KnownBits(hacksEnabled_)))

\* a frame that was run under a mask with an unknown bit and two known ones,
\* both of whose hacks rewrote the list
C8_Witness ==
    /\ pc = "done"
    /\ hacksEnabled_ = 7
    /\ GatedRewrite(1) # GatedRewrite(0)
    /\ GatedRewrite(3) # GatedRewrite(1)
    /\ GatedRewrite(11) # GatedRewrite(3)
    /\ cmdlog # << >>

-----------------------------------------------------------------------------
(* Lifetime and emission of the step objects *)

\* C9: when RunSteps has returned, every step object handed in has been
\* destroyed exactly once, none twice and none left undestroyed.
C9_StepsDestroyedOnce ==
    pc = "done" => \A id \in DOMAIN deleted : deleted[id] = 1

\* an iteration of the execution loop
PerformsStep == pc = "exec" /\ idx <= Len(steps) /\ idx' = idx + 1

\* C10: the execution loop visits the rewritten list once in increasing index
\* order; every step object is emitted at most once in the frame, a
\* RENDER_SKIP step emits nothing, and the list is not rewritten once the
\* first step has been emitted.
C10_EmissionOrder ==
    [][pc = "exec" =>
          /\ steps' = steps /\ heap' = heap
          /\ PerformsStep \/ (idx > Len(steps) /\ pc' = "done" /\ cmdlog' = cmdlog)
          /\ PerformsStep =>
                IF heap[steps[idx]].stepType = "RENDER_SKIP"
                THEN cmdlog' = cmdlog
                ELSE emitted[steps[idx]] = 0
    ]_vars

-----------------------------------------------------------------------------
(* Layout transitions of the execution loop *)

\* the commands the iteration of the execution loop being taken emits
Emitted == SubSeq(cmdlog', Len(cmdlog) + 1, Len(cmdlog'))

\* the barriers among entries that name the image (fb, aspect)
BarriersOn(entries, fb, aspect) ==
    {k \in 1..Len(entries) :
        /\ entries[k].op = "vkCmdPipelineBarrier"
        /\ entries[k].fb = fb /\ entries[k].aspect = aspect}

\* the images a transfer or readback step asks to have in transfer-src
\* layout, and those it asks to have in transfer-dst layout
SrcImages(s) ==
    CASE s.stepType \in {"COPY", "BLIT"} ->
            (IF HasColor(s.aspectMask) THEN {<<s.src, "color">>} ELSE {})
            \cup (IF HasDepthStencil(s.aspectMask) THEN {<<s.src, "depth">>} ELSE {})
      [] s.stepType = "READBACK" /\ s.src # NullFb ->
            IF HasColor(s.aspectMask) THEN {<<s.src, "color">>}
            ELSE IF HasDepthStencil(s.aspectMask) THEN {<<s.src, "depth">>} ELSE {}
      [] OTHER -> {}

DstImages(s) ==
    IF s.stepType \in {"COPY", "BLIT"}
    THEN (IF HasColor(s.aspectMask) THEN {<<s.dst, "color">>} ELSE {})
         \cup (IF HasDepthStencil(s.aspectMask) THEN {<<s.dst, "depth">>} ELSE {})
    ELSE {}

\* the layout tag of an image
Tag(img) == IF img[2] = "color" THEN colorLayout[img[1]] ELSE depthLayout[img[1]]
TagAfter(img) == IF img[2] = "color" THEN colorLayout'[img[1]] ELSE depthLayout'[img[1]]

\* a render step that asks twice in a row for the same layout of the same
\* image emits one barrier for it if the tag differed, none if it did not
RepeatedPreTransition(s) ==
    \A k \in 1..(Len(s.preTransitions) - 1) :
        (s.stepType = "RENDER" /\ s.preTransitions[k] = s.preTransitions[k + 1]
            /\ s.preTransitions[k].fb # s.framebuffer) =>
            LET req == s.preTransitions[k]
                first == SetMin({m \in 1..Len(s.preTransitions) : s.preTransitions[m].fb = req.fb})
            IN first = k =>
                  /\ Cardinality(BarriersOn(Emitted, req.fb, "color"))
                        = (IF colorLayout[req.fb] # req.targetLayout THEN 1 ELSE 0)
                  /\ colorLayout'[req.fb] = req.targetLayout

\* a transfer step that asks for the layout the step before it asked for, of
\* an image neither step uses in the other role, emits no barrier for it
RepeatedTransfer(p, s) ==
    /\ \A img \in (SrcImages(p) \cap SrcImages(s)) \ (DstImages(p) \cup DstImages(s)) :
          /\ BarriersOn(Emitted, img[1], img[2]) = {}
          /\ Tag(img) = "TRANSFER_SRC_OPTIMAL" /\ TagAfter(img) = Tag(img)
    /\ \A img \in (DstImages(p) \cap DstImages(s)) \ (SrcImages(p) \cup SrcImages(s)) :
          /\ BarriersOn(Emitted, img[1], img[2]) = {}
          /\ Tag(img) = "TRANSFER_DST_OPTIMAL" /\ TagAfter(img) = Tag(img)

\* C11: when the same layout is requested for the same image twice in a row
\* (two consecutive preTransitions of a step, or two consecutive Copy / Blit /
\* Readback steps using the image in the same role), only the first request
\* emits a barrier; the second finds the tag at the target, emits none and
\* leaves the tag as it is.
C11_TransitionIdempotent ==
    [][PerformsStep =>
          /\ RepeatedPreTransition(heap[steps[idx]])
          /\ idx > 1 => RepeatedTransfer(heap[steps[idx - 1]], heap[steps[idx]])
    ]_vars

\* two copies from A to B in a row and then a render that samples A twice
\* have run; the copies emitted two barriers, the render one
C11_Witness ==
    /\ pc = "done" /\ Len(steps) = 3
    /\ heap[steps[1]].stepType = "COPY" /\ heap[steps[2]] = [heap[steps[1]] EXCEPT !.id = 2]
    /\ heap[steps[1]].src # heap[steps[1]].dst
    /\ Len(heap[steps[3]].preTransitions) = 2
    /\ recorded.layouts = UsedLayouts
    /\ Cardinality({k \in 1..Len(cmdlog) : cmdlog[k].op = "vkCmdPipelineBarrier"}) = 3

\* the step the iteration being taken executes is a color copy between two
\* different framebuffers
CopiesColor(s) ==
    s.stepType = "COPY" /\ s.aspectMask = {"COLOR"} /\ s.src # s.dst

\* the endpoints of a color copy whose tag is not the layout the copy needs
StaleEndpoints(s) ==
    (IF colorLayout[s.src] # "TRANSFER_SRC_OPTIMAL" THEN {s.src} ELSE {})
    \cup (IF colorLayout[s.dst] # "TRANSFER_DST_OPTIMAL" THEN {s.dst} ELSE {})

-----------------------------------------------------------------------------
(* Three renders to one framebuffer *)

\* the recorded frame is three render steps on one framebuffer with 2, 3 and
\* 1 draws and empty dependency sets
TripleRecorded ==
    /\ Len(recorded.steps) = 3
    /\ \A k \in 1..3 :
          /\ recorded.heap[k].stepType = "RENDER"
          /\ recorded.heap[k].framebuffer = recorded.heap[1].framebuffer
          /\ recorded.heap[k].dependencies = {}
    /\ recorded.heap[1].framebuffer \in Framebuffers
    /\ <<recorded.heap[1].numDraws, recorded.heap[2].numDraws, recorded.heap[3].numDraws>> = <<2, 3, 1>>

\* the uids of the draws of a command list, in order
DrawUids(commands) ==
    LET draws == SelectSeq(commands, IsDraw)
    IN [k \in 1..Len(draws) |-> draws[k].uid]

\* the uids of the draws the emitted commands replay, in order
DrawsEmitted ==
    LET IsDrawCall(e) == e.op \in {"vkCmdDraw", "vkCmdDrawIndexed"}
        calls_ == SelectSeq(cmdlog, IsDrawCall)
    IN [k \in 1..Len(calls_) |-> calls_[k].n]

PassesBegun == {k \in 1..Len(cmdlog) : cmdlog[k].op = "vkCmdBeginRenderPass"}

\* the frame was executed as one render pass on its framebuffer that replays
\* the six draws in recorded order; the two later steps are RENDER_SKIP and
\* all three have been deleted
ExecutedAsOnePass ==
    /\ Cardinality(PassesBegun) = 1
    /\ \A k \in PassesBegun : cmdlog[k].fb = recorded.heap[1].framebuffer
    /\ cmdlog[Len(cmdlog)].op = "vkCmdEndRenderPass"
    /\ Cardinality({k \in 1..Len(cmdlog) : cmdlog[k].op = "vkCmdEndRenderPass"}) = 1
    /\ DrawsEmitted = DrawUids(recorded.heap[1].commands) \o DrawUids(recorded.heap[2].commands)
                         \o DrawUids(recorded.heap[3].commands)
    /\ Len(DrawsEmitted) = 6
    /\ steps = <<1, 2, 3>>
    /\ heap[1].stepType = "RENDER"
    /\ heap[2].stepType = "RENDER_SKIP" /\ heap[3].stepType = "RENDER_SKIP"
    /\ \A id \in 1..3 : deleted[id] = 1

-----------------------------------------------------------------------------
(* The staging buffer *)

\* the bytes a readback step of a w x h region asks for
Requested(s) == 4 * s.width * s.height

\* the requests of the readback steps executed so far in the frame
RequestsSoFar ==
    {Requested(heap[steps[k]]) : k \in {m \in 1..(idx - 1) : Resizes(heap[steps[m]])}}

AllocationFailed(events) == \E k \in 1..Len(events) : events[k].what = "vkDestroyBuffer"

\* C14: ResizeReadbackBuffer(n) does nothing when a buffer exists and n is at
\* most the capacity, and otherwise sets the capacity to exactly n; a
\* readback of w x h asks for 4*w*h bytes (40000 for 100 x 100 on an empty
\* buffer); while allocations succeed the capacity is the largest request so
\* far and never decreases.
C14_StagingCapacity ==
    /\ []((pc \in {"exec", "done"} /\ ~AllocationFailed(bufEvents)) =>
             readbackBufferSize_ = SetMax({0} \cup RequestsSoFar))
    /\ [][PerformsStep =>
             LET s == heap[steps[idx]]
             IN /\ IF Resizes(s) /\ ~(readbackBuffer_ # 0 /\ Requested(s) <= readbackBufferSize_)
                   THEN readbackBufferSize_' = Requested(s)
                   ELSE UNCHANGED readbackVars
                /\ ~AllocationFailed(bufEvents') => readbackBufferSize_' >= readbackBufferSize_
                /\ (Resizes(s) /\ readbackBuffer_ = 0 /\ s.width = 100 /\ s.height = 100) =>
                      readbackBufferSize_' = 40000
       ]_vars

\* a 100 x 100 readback on the empty buffer and then a smaller one have run:
\* one buffer was created, of 40000 bytes
C14_Witness ==
    /\ pc = "exec" /\ idx = 3
    /\ Resizes(heap[steps[1]]) /\ Requested(heap[steps[1]]) = 40000
    /\ Resizes(heap[steps[2]]) /\ Requested(heap[steps[2]]) < 40000
    /\ readbackBufferSize_ = 40000
    /\ Len(bufEvents) = 2 /\ readbackBuffer_ # 0

-----------------------------------------------------------------------------
(* CopyReadbackBuffer *)

\* the call mapped the staging memory and ran to its end
CopiedOut == Len(copyLog) > 0 /\ copyLog[Len(copyLog)].what = "vkUnmapMemory"

\* the destination bytes of row y of a call: width pixels from pixel y * pixelStride
RowRange(c, y) ==
    LET size == DataFormatSizeInBytes(c.destFormat)
    IN (y * c.pixelStride * size)..(y * c.pixelStride * size + c.width * size - 1)

\* C15: with srcFormat == destFormat (and the staging memory mapped), row y
\* of the staged data is found byte for byte at pixel offset y * pixelStride
\* of the destination, for every y < height, and no other destination byte
\* is written.
C15_SameFormatRoundTrip ==
    (copyCall.made /\ CopiedOut /\ copyCall.srcFormat = copyCall.destFormat) =>
        LET c == copyCall
            size == DataFormatSizeInBytes(c.srcFormat)
            Rows == UNION {RowRange(c, y) : y \in 0..(c.height - 1)}
        IN /\ \A y \in 0..(c.height - 1) : \A j \in 0..(c.width * size - 1) :
                 pixels[y * c.pixelStride * size + j] = c.mapped[y * c.width * size + j]
           /\ written = Rows
           /\ \A k \in DOMAIN pixels : k \notin Rows => pixels[k] = 0

\* two rows of two 16-bit pixels were copied into rows three pixels apart
C15_Witness ==
    /\ copyCall.made /\ CopiedOut
    /\ copyCall.srcFormat = "R5G6B5_UNORM_PACK16" /\ copyCall.destFormat = "R5G6B5_UNORM_PACK16"
    /\ copyCall.width = 2 /\ copyCall.height = 2 /\ copyCall.pixelStride = 3
    /\ written = (0..3) \cup (6..9)
    /\ pixels[6] = copyCall.mapped[4]

-----------------------------------------------------------------------------
(* The pass cache over device loss *)

QueuedPasses == {deletedPasses[k] : k \in 1..Len(deletedPasses)}

\* the step queued pass objects for deletion: only DestroyDeviceObjects does
QueuesPasses == deletedPasses' # deletedPasses

\* C16: the cache is append-only between device losses (no entry is removed
\* or given another handle by anything but DestroyDeviceObjects);
\* DestroyDeviceObjects queues every cached pass object exactly once and
\* empties the cache, and GetRenderPass with a key used before then creates
\* a fresh object.
C16_CacheAppendOnly ==
    /\ [](Cardinality(QueuedPasses) = Len(deletedPasses))
    /\ [][IF QueuesPasses
          THEN LET tail == SubSeq(deletedPasses', Len(deletedPasses) + 1, Len(deletedPasses'))
                   cached == {renderPasses_[key] : key \in DOMAIN renderPasses_}
               IN /\ renderPasses_' = << >>
                  /\ {tail[k] : k \in 1..Len(tail)} = cached \cup {backbufferRenderPass_}
                  /\ Len(tail) = Cardinality(cached) + 1
                  /\ Cardinality(cached) = Cardinality(DOMAIN renderPasses_)
          ELSE \A key \in DOMAIN renderPasses_ :
                  key \in DOMAIN renderPasses_' /\ renderPasses_'[key] = renderPasses_[key]
       ]_vars
    /\ [][\A key \in CacheKeys :
             (CallGetRenderPass(key) /\ key \notin DOMAIN renderPasses_) =>
                 /\ Len(passObjs') = Len(passObjs) + 1
                 /\ passObjs'[Len(passObjs')] = PassObject(key)
                 /\ renderPasses_'[key] = Len(passObjs')
                 /\ renderPasses_'[key] \notin QueuedPasses
       ]_vars

\* a key whose pass object was queued for deletion is cached again, with
\* another object
C16_Witness ==
    \E key \in DOMAIN renderPasses_ : \E h \in QueuedPasses :
        /\ key # FramebufferPassKey
        /\ passObjs[h] = PassObject(key)
        /\ renderPasses_[key] # h
        /\ renderPasses_[key] \notin QueuedPasses

-----------------------------------------------------------------------------
(* A failed staging allocation *)

\* the step performed was a readback whose vkAllocateMemory failed
AllocationFailsNow ==
    /\ PerformsStep
    /\ Len(bufEvents') > Len(bufEvents)
    /\ bufEvents'[Len(bufEvents')].what = "vkDestroyBuffer"

\* C17: a failed staging allocation in a readback step does not abort the
\* frame: the loop goes on to the next step, at the end every step of the
\* list was executed and destroyed, the memory handle is null after the
\* failure, and CopyReadbackBuffer with the null handle stores no byte to
\* the destination.
C17_AllocationFailureTolerated ==
    /\ [][AllocationFailsNow =>
             /\ readbackMemory_' = 0
             /\ pc' = "exec" /\ idx' = idx + 1
             /\ steps' = steps /\ heap' = heap
       ]_vars
    /\ []((pc = "done" /\ AllocationFailed(bufEvents)) =>
             \A k \in 1..Len(steps) : emitted[steps[k]] = 1 /\ deleted[steps[k]] = 1)
    /\ []((copyCall.made /\ readbackMemory_ = 0) =>
             /\ written = {}
             /\ \A k \in DOMAIN pixels : pixels[k] = 0
             /\ copyLog = << >>)

\* the allocation of the first of two steps failed, the second step (a copy)
\* ran, both were destroyed, and the caller then asked for the pixels
C17_Witness ==
    /\ copyCall.made /\ copyCall.width = 2 /\ copyCall.height = 2
    /\ copyCall.srcFormat = copyCall.destFormat
    /\ readbackMemory_ = 0
    /\ Len(steps) = 2
    /\ heap[steps[1]].stepType = "READBACK" /\ heap[steps[2]].stepType = "COPY"
    /\ AllocationFailed(bufEvents)
    /\ emitted[steps[2]] = 1 /\ deleted[steps[2]] = 1
    /\ written = {}

-----------------------------------------------------------------------------
(* An unsupported format pair *)

\* neither 32-bit colour source, nor equal formats, nor a float depth destination
Unsupported(srcFormat, destFormat) ==
    /\ srcFormat \notin {"R8G8B8A8_UNORM", "B8G8R8A8_UNORM"}
    /\ srcFormat # destFormat
    /\ destFormat # "D32F"

Mapped == Len(copyLog) > 0 /\ \A k \in 1..Len(copyLog) : copyLog[k].what # "ELOG: vkMapMemory failed"

\* C18: CopyReadbackBuffer with an unsupported format pair (the staging
\* memory mapped) logs an error, writes nothing to the destination, unmaps
\* the staging memory and returns normally.
C18_UnsupportedPairReturns ==
    (copyCall.made /\ Mapped /\ Unsupported(copyCall.srcFormat, copyCall.destFormat)) =>
        /\ \E k \in 1..Len(copyLog) : copyLog[k].what = "ELOG: Unknown format"
        /\ written = {}
        /\ \A k \in DOMAIN pixels : pixels[k] = 0
        /\ copyLog[Len(copyLog)].what = "vkUnmapMemory"
        /\ ~Aborted(copyLog)

-----------------------------------------------------------------------------
(* Transitions from layouts the switches do not list *)

\* the image is neither barriered nor retagged by the step
Untouched(img) == BarriersOn(Emitted, img[1], img[2]) = {} /\ TagAfter(img) = Tag(img)

\* C19: a transition requested from (or, for a preTransition, to) a layout
\* that the resolver's switch does not list stops there: no barrier is
\* emitted for that image and its tag is not set to the new layout.
C19_UnlistedLayoutStops ==
    [][PerformsStep =>
          LET s == heap[steps[idx]]
          IN /\ \A img \in SrcImages(s) \ DstImages(s) :
                   Tag(img) \notin (KnownToTransferSrc \cup {"TRANSFER_SRC_OPTIMAL"}) => Untouched(img)
             /\ \A img \in DstImages(s) \ SrcImages(s) :
                   Tag(img) \notin (KnownToTransferDst \cup {"TRANSFER_DST_OPTIMAL"}) => Untouched(img)
             /\ s.stepType = "RENDER" =>
                   \A k \in 1..Len(s.preTransitions) :
                      LET req == s.preTransitions[k]
                      IN (/\ \A m \in 1..(k - 1) : s.preTransitions[m].fb # req.fb
                          /\ req.fb # s.framebuffer
                          /\ colorLayout[req.fb] # req.targetLayout
                          /\ (colorLayout[req.fb] \notin KnownPreOld \/ req.targetLayout \notin KnownPreNew))
                         => Untouched(<<req.fb, "color">>)
    ]_vars

-----------------------------------------------------------------------------
(* The dead-clear fold *)

\* the list as RunSteps has it when the dead-clear loop starts
BeforeFold == NormalizeAll(prev.steps, prev.heap)

\* the later positions at which the scan for the clear at j ends: a Render
\* step on its framebuffer, or a Copy reading it
ScanEnds(j) ==
    {i \in (j + 1)..Len(steps) :
        LET si == BeforeFold[steps[i]]
            fb == BeforeFold[steps[j]].framebuffer
        IN \/ si.stepType = "RENDER" /\ si.framebuffer = fb
           \/ si.stepType = "COPY" /\ si.src = fb}

EmptyAllClear(s) ==
    /\ s.stepType = "RENDER" /\ s.numDraws = 0 /\ s.numReads = 0
    /\ s.color = "CLEAR" /\ s.depth = "CLEAR" /\ s.stencil = "CLEAR"

\* C20: an empty all-clear Render step j (not the last step, zero reads)
\* whose scan ends at a Render step i becomes Skip, and i ends all-clear,
\* each component that was not clear taking j's clear value and each that
\* was clear keeping its own; with no later Render step on the framebuffer,
\* j is left unchanged.
C20_DeadClearFold ==
    pc = "mgs" =>
        \A j \in 1..(Len(steps) - 1) :
            LET sj == BeforeFold[steps[j]]
            IN EmptyAllClear(sj) =>
                 /\ (ScanEnds(j) # {} /\ BeforeFold[steps[SetMin(ScanEnds(j))]].stepType = "RENDER") =>
                       LET i == SetMin(ScanEnds(j))
                           si == BeforeFold[steps[i]]
                           after == heap[steps[i]]
                       IN /\ heap[steps[j]].stepType = "RENDER_SKIP"
                          /\ after.color = "CLEAR" /\ after.depth = "CLEAR" /\ after.stencil = "CLEAR"
                          /\ after.clearColor = (IF si.color # "CLEAR" THEN sj.clearColor ELSE si.clearColor)
                          /\ after.clearDepth = (IF si.depth # "CLEAR" THEN sj.clearDepth ELSE si.clearDepth)
                          /\ after.clearStencil = (IF si.stencil # "CLEAR" THEN sj.clearStencil ELSE si.clearStencil)
                 /\ (\A i \in (j + 1)..Len(steps) :
                        ~(BeforeFold[steps[i]].stepType = "RENDER"
                          /\ BeforeFold[steps[i]].framebuffer = sj.framebuffer)) =>
                       heap[steps[j]] = sj

\* the clear (1, 2, 3) was folded, past a pass on B, into a pass on A that
\* cleared its colour to 7 and kept its depth: this pass now clears to 7, 2, 3
C20_Witness ==
    /\ pc = "mgs" /\ Len(steps) = 3
    /\ EmptyAllClear(BeforeFold[steps[1]])
    /\ BeforeFold[steps[2]].stepType = "RENDER" /\ BeforeFold[steps[2]].framebuffer = "B"
    /\ BeforeFold[steps[3]].color = "CLEAR" /\ BeforeFold[steps[3]].depth = "KEEP"
    /\ heap[steps[1]].stepType = "RENDER_SKIP"
    /\ heap[steps[3]].clearColor = 7 /\ heap[steps[3]].clearDepth = 2
    /\ heap[steps[3]].clearStencil = 3 /\ heap[steps[3]].stencil = "CLEAR"

-----------------------------------------------------------------------------
(* The dead-clear fold given up at a copy *)

\* a Render step with no draws and all three load actions clear
EmptyClearPass(s) ==
    /\ s.stepType = "RENDER" /\ s.numDraws = 0
    /\ s.color = "CLEAR" /\ s.depth = "CLEAR" /\ s.stencil = "CLEAR"

\* the Render steps on the framebuffer of step j after it
LaterRenders(j) ==
    {i \in (j + 1)..Len(steps) :
        /\ BeforeFold[steps[i]].stepType = "RENDER"
        /\ BeforeFold[steps[i]].framebuffer = BeforeFold[steps[j]].framebuffer}

\* a Copy from the framebuffer of step j lies after j and before the next
\* Render step on that framebuffer, which there is
CopyBeforeNextRender(j) ==
    /\ LaterRenders(j) # {}
    /\ \E c \in (j + 1)..(SetMin(LaterRenders(j)) - 1) :
          /\ BeforeFold[steps[c]].stepType = "COPY"
          /\ BeforeFold[steps[c]].src = BeforeFold[steps[j]].framebuffer

SameClears(a, b) ==
    /\ a.color = b.color /\ a.depth = b.depth /\ a.stencil = b.stencil
    /\ a.clearColor = b.clearColor /\ a.clearDepth = b.clearDepth
    /\ a.clearStencil = b.clearStencil

\* C21 as stated: with a Copy from the cleared framebuffer between the empty
\* all-clear Render step j and the next Render step on that framebuffer,
\* both Render steps keep step type, load actions and clear values.
C21_CopyKeepsBothSteps ==
    pc = "mgs" =>
        \A j \in 1..(Len(steps) - 1) :
            (EmptyClearPass(BeforeFold[steps[j]]) /\ CopyBeforeNextRender(j)) =>
                LET i == SetMin(LaterRenders(j))
                IN /\ heap[steps[j]].stepType = "RENDER"
                   /\ SameClears(heap[steps[j]], BeforeFold[steps[j]])
                   /\ heap[steps[i]].stepType = "RENDER"
                   /\ SameClears(heap[steps[i]], BeforeFold[steps[i]])

\* the next Render step is itself an empty all-clear step with no reads that
\* has a Render step on the framebuffer after it, and no Copy from it between
FoldsOnward(i) ==
    /\ EmptyAllClear(BeforeFold[steps[i]])
    /\ ScanEnds(i) # {}
    /\ BeforeFold[steps[SetMin(ScanEnds(i))]].stepType = "RENDER"

\* C21, amended: j keeps step type, load actions and clear values; the next
\* Render step keeps its load actions and clear values, and keeps its step
\* type unless it is itself an empty all-clear step folded into a later
\* Render step, in which case it becomes Skip.
C21_CopyAbandonsFold ==
    pc = "mgs" =>
        \A j \in 1..(Len(steps) - 1) :
            (EmptyClearPass(BeforeFold[steps[j]]) /\ CopyBeforeNextRender(j)) =>
                LET i == SetMin(LaterRenders(j))
                IN /\ heap[steps[j]].stepType = "RENDER"
                   /\ SameClears(heap[steps[j]], BeforeFold[steps[j]])
                   /\ SameClears(heap[steps[i]], BeforeFold[steps[i]])
                   /\ heap[steps[i]].stepType
                         = (IF FoldsOnward(i) THEN "RENDER_SKIP" ELSE "RENDER")

\* a clear with no reads counted, a copy from its framebuffer, and a pass
\* that keeps: after the loop both are as they were
C21_Witness ==
    /\ pc = "mgs" /\ Len(steps) = 3
    /\ EmptyAllClear(BeforeFold[steps[1]])
    /\ BeforeFold[steps[2]].stepType = "COPY" /\ BeforeFold[steps[2]].src = "A"
    /\ BeforeFold[steps[3]].stepType = "RENDER" /\ BeforeFold[steps[3]].framebuffer = "A"
    /\ BeforeFold[steps[3]].color = "KEEP"
    /\ heap[steps[1]].stepType = "RENDER"
    /\ heap[steps[3]].color = "KEEP" /\ heap[steps[3]].clearColor = 0

-----------------------------------------------------------------------------
(* Clears that a blit or a readback observes *)

\* the reads of the output of the Render step at j of the recorded list: the
\* later steps reading its framebuffer before the next Render step on it
ReadersOf(j) ==
    {k \in (j + 1)..Len(recorded.steps) :
        /\ ReadsFrom(recorded.heap[recorded.steps[k]], recorded.heap[recorded.steps[j]].framebuffer)
        /\ \A m \in (j + 1)..(k - 1) :
              ~(recorded.heap[recorded.steps[m]].stepType = "RENDER"
                /\ recorded.heap[recorded.steps[m]].framebuffer
                      = recorded.heap[recorded.steps[j]].framebuffer)}

\* every Render step of the recorded list carries the count of its readers
ReadsCounted ==
    \A j \in 1..Len(recorded.steps) :
        (recorded.heap[recorded.steps[j]].stepType = "RENDER"
            /\ recorded.heap[recorded.steps[j]].framebuffer # NullFb) =>
            recorded.heap[recorded.steps[j]].numReads = Cardinality(ReadersOf(j))

\* a Blit from, or a Readback of, the framebuffer of step j lies after j and
\* before the next Render step on that framebuffer, which there is
ObservedBeforeNextRender(j) ==
    /\ LaterRenders(j) # {}
    /\ \E c \in (j + 1)..(SetMin(LaterRenders(j)) - 1) :
          /\ BeforeFold[steps[c]].stepType \in {"BLIT", "READBACK"}
          /\ BeforeFold[steps[c]].src = BeforeFold[steps[j]].framebuffer

-----------------------------------------------------------------------------
(* The merge pass and framebuffers written on the way *)

\* the step in slot j was a Render step before the merge pass and was
\* slurped up by it
Slurped(j) ==
    prev.heap[steps[j]].stepType = "RENDER" /\ heap[steps[j]].stepType = "RENDER_SKIP"

\* the slot whose scan slurped slot j: the last Render step on the
\* framebuffer that is before j and still is a Render step
Slurper(j) ==
    SetMax({i \in 1..(j - 1) :
              /\ heap[steps[i]].stepType = "RENDER"
              /\ heap[steps[i]].framebuffer = prev.heap[steps[j]].framebuffer})

\* the step type slot k had when the scan of slot i ran: steps slurped by an
\* earlier scan were Skip by then
TypeAtScan(i, k) ==
    IF Slurped(k) /\ Slurper(k) < i THEN "RENDER_SKIP" ELSE prev.heap[steps[k]].stepType

\* the framebuffers other than that of slot i written by the steps between
\* slot i and slot k, as the scan of slot i met them
WrittenBetween(i, k) ==
    {fb \in Framebuffers \cup {NullFb} :
        \E m \in (i + 1)..(k - 1) :
            LET sm == prev.heap[steps[m]]
            IN \/ TypeAtScan(i, m) = "RENDER" /\ sm.framebuffer = fb
                     /\ fb # heap[steps[i]].framebuffer
               \/ TypeAtScan(i, m) \in {"COPY", "BLIT"} /\ sm.dst = fb}

\* C23: the scan from Render step i stops, absorbing nothing further, at the
\* first Render step that depends on a framebuffer written since i by a
\* Render, Copy or Blit step; so no Render step up to and including an
\* absorbed step j depends on a framebuffer written between i and itself.
C23_NoTransitiveHazard ==
    (pc = "exec" /\ MergeEnabled(hacksEnabled_)) =>
        \A j \in 1..Len(steps) :
            Slurped(j) =>
                LET i == Slurper(j)
                IN \A k \in (i + 1)..j :
                      TypeAtScan(i, k) = "RENDER" =>
                          prev.heap[steps[k]].dependencies \cap WrittenBetween(i, k) = {}

\* a pass on B lies between two passes on A, and the second pass on A, which
\* does not read B, was slurped by the first
C23_Witness ==
    /\ pc = "exec" /\ MergeEnabled(hacksEnabled_) /\ Len(steps) = 3
    /\ Slurped(3) /\ Slurper(3) = 1
    /\ WrittenBetween(1, 3) = {"B"}
    /\ prev.heap[steps[3]].dependencies # {}

-----------------------------------------------------------------------------
(* Clears and draws per framebuffer *)

\* the clears a Render step applies on beginning its pass
LoadClears(s) ==
    (IF s.color = "CLEAR" THEN <<[what |-> "clear color", value |-> s.clearColor]>> ELSE << >>)
    \o (IF s.depth = "CLEAR" THEN <<[what |-> "clear depth", value |-> s.clearDepth]>> ELSE << >>)
    \o (IF s.stencil = "CLEAR" THEN <<[what |-> "clear stencil", value |-> s.clearStencil]>> ELSE << >>)

\* the recorded clear and draw commands of a command list, in order
RECURSIVE ClearsAndDraws(_, _)
ClearsAndDraws(commands, k) ==
    IF k > Len(commands) THEN << >>
    ELSE (IF commands[k].cmd = "CLEAR" \/ IsDraw(commands[k])
          THEN <<[what |-> commands[k].cmd, value |-> commands[k].uid]>> ELSE << >>)
         \o ClearsAndDraws(commands, k + 1)

\* the clears and draws the list applies to framebuffer fb, from slot k on
RECURSIVE ClearStream(_, _, _, _)
ClearStream(st, hp, fb, k) ==
    IF k > Len(st) THEN << >>
    ELSE (IF hp[st[k]].stepType = "RENDER" /\ hp[st[k]].framebuffer = fb
          THEN LoadClears(hp[st[k]]) \o ClearsAndDraws(hp[st[k]].commands, 1)
          ELSE << >>)
         \o ClearStream(st, hp, fb, k + 1)

\* C24: every clear the list applies to a framebuffer before the fusions (a
\* clear load action or a recorded clear command) is applied by the
\* optimized list at the same position among the draws on that framebuffer.
C24_FusionsPreserveClears ==
    pc \in {"exec", "done"} =>
        \A fb \in Framebuffers \cup {NullFb} :
            ClearStream(steps, heap, fb, 1)
                = ClearStream(GatedRewrite(0).steps, GatedRewrite(0).heap, fb, 1)

-----------------------------------------------------------------------------
(* Commands appended across steps *)

\* the step a command was recorded in
RecordedIn(c) == c.uid \div 10

\* C25: whenever a rewrite appends commands of step j to step i, both are
\* Render steps on the same framebuffer.
C25_NoCrossTargetFusion ==
    [][\A id \in DOMAIN heap :
          \A k \in (Len(heap[id].commands) + 1)..Len(heap'[id].commands) :
              LET j == RecordedIn(heap'[id].commands[k])
              IN /\ heap[id].stepType = "RENDER"
                 /\ heap[j].stepType = "RENDER"
                 /\ heap[j].framebuffer = heap[id].framebuffer
    ]_vars

-----------------------------------------------------------------------------
(* The step vector across the game-specific fusions *)

\* b holds the step objects of a, each as often as a does
Permutation(a, b) ==
    /\ Len(a) = Len(b)
    /\ \A id \in DOMAIN heap : Cardinality(PlacesOf(a, id)) = Cardinality(PlacesOf(b, id))

\* C26: after ApplyMGSHack and after ApplySonicHack the vector has the length
\* it had and holds the same step objects, each exactly once.
C26_FusionsPermuteSteps ==
    pc \in {"sonic", "merge"} =>
        /\ Permutation(prev.steps, steps)
        /\ \A id \in DOMAIN heap : Cardinality(PlacesOf(steps, id)) = 1

-----------------------------------------------------------------------------
(* Steps that are not Render steps *)

TransferTypes == {"COPY", "BLIT", "READBACK", "READBACK_IMAGE"}

\* the steps of a vector that are not Render steps, in vector order
TransfersOf(st, hp) ==
    LET IsTransfer(id) == hp[id].stepType \in TransferTypes
    IN SelectSeq(st, IsTransfer)

\* the execution loop has visited every slot of the vector
LoopFinished == pc = "exec" /\ idx > Len(steps)

\* C27: every Copy, Blit, Readback and ReadbackImage step of the recorded list
\* keeps its step type through the rewrites, is executed exactly once, and
\* these steps keep their order.
C27_OnlyRendersElided ==
    LoopFinished =>
        /\ TransfersOf(steps, heap) = TransfersOf(recorded.steps, recorded.heap)
        /\ \A id \in DOMAIN heap :
              recorded.heap[id].stepType \in TransferTypes =>
                  /\ heap[id].stepType = recorded.heap[id].stepType
                  /\ emitted[id] = 1

-----------------------------------------------------------------------------
(* Layout tags of the target after a Render step *)

\* the execution loop is at a Render step on an offscreen framebuffer
AtOffscreenRender ==
    /\ PerformsStep
    /\ heap[steps[idx]].stepType = "RENDER"
    /\ heap[steps[idx]].framebuffer # NullFb

\* the tags of the target of the step at idx after the iteration
TargetTagsFinal ==
    LET step == heap[steps[idx]]
    IN /\ colorLayout'[step.framebuffer] = step.finalColorLayout
       /\ depthLayout'[step.framebuffer] = "DEPTH_STENCIL_ATTACHMENT_OPTIMAL"

\* C28 as stated: after the execution loop has handled any Render step on an
\* offscreen framebuffer, the color tag of the framebuffer is the step's final
\* color layout and its depth tag is depth-stencil-attachment.
C28_RenderLeavesFinalTags ==
    [][AtOffscreenRender => TargetTagsFinal]_vars

\* C28 (amended): the same for every Render step on an offscreen framebuffer
\* that is not an empty step with three keep load actions; such a step
\* returns before the pass and leaves both tags of its target as they were.
C28_ExecutedRenderLeavesFinalTags ==
    [][AtOffscreenRender =>
          IF IsEmptyKeep(heap[steps[idx]])
          THEN LET fb == heap[steps[idx]].framebuffer
               IN /\ depthLayout'[fb] = depthLayout[fb]
                  /\ (\A k \in 1..Len(heap[steps[idx]].preTransitions) :
                          heap[steps[idx]].preTransitions[k].fb # fb)
                        => colorLayout'[fb] = colorLayout[fb]
          ELSE TargetTagsFinal
    ]_vars

\* the step just handled was a Render step with draws on an offscreen
\* framebuffer, and it moved both tags of its target
C28_Witness ==
    /\ pc = "exec" /\ idx > 1
    /\ LET step == heap[steps[idx - 1]]
           fb == step.framebuffer
       IN /\ step.stepType = "RENDER" /\ fb # NullFb
          /\ step.numDraws > 0
          /\ step.finalColorLayout = "SHADER_READ_ONLY_OPTIMAL"
          /\ colorLayout[fb] = "SHADER_READ_ONLY_OPTIMAL"
          /\ depthLayout[fb] = "DEPTH_STENCIL_ATTACHMENT_OPTIMAL"
          /\ \E k \in 1..Len(cmdlog) :
                /\ cmdlog[k].op = "vkCmdBlitImage" /\ cmdlog[k].fb2 = fb
                /\ cmdlog[k].aspect = "depth"

-----------------------------------------------------------------------------
(* Empty Render steps that keep the contents *)

\* a Render step with no commands and three keep load actions
EmptyAllKeep(s) ==
    /\ s.stepType = "RENDER"
    /\ s.commands = << >>
    /\ s.color = "KEEP" /\ s.depth = "KEEP" /\ s.stencil = "KEEP"

\* the framebuffers the preTransitions of a step name
PreTransitionTargets(s) == {s.preTransitions[k].fb : k \in 1..Len(s.preTransitions)}

\* the iteration emits only barriers on color images its preTransitions name
OnlyPreTransitionBarriers(s) ==
    \A k \in 1..Len(Emitted) :
        /\ Emitted[k].op = "vkCmdPipelineBarrier"
        /\ Emitted[k].aspect = "color"
        /\ Emitted[k].fb \in PreTransitionTargets(s)

\* C29: for a Render step with no commands and keep / keep / keep, the
\* execution loop emits nothing but the barriers of the step's
\* preTransitions (no pass is begun or ended), the pass-object cache is
\* neither looked up nor added to, and the tags of the step's target stay as
\* they are (the color tag unless a preTransition of the step names the
\* target itself).
C29_EmptyKeepNotExecuted ==
    [][(PerformsStep /\ EmptyAllKeep(heap[steps[idx]])) =>
          LET s == heap[steps[idx]]
          IN /\ OnlyPreTransitionBarriers(s)
             /\ calls' = calls
             /\ renderPasses_' = renderPasses_
             /\ passObjs' = passObjs
             /\ depthLayout' = depthLayout
             /\ \A fb \in Framebuffers \ PreTransitionTargets(s) : colorLayout'[fb] = colorLayout[fb]
             /\ \A fb \in PreTransitionTargets(s) : colorLayout'[fb] = "SHADER_READ_ONLY_OPTIMAL"
    ]_vars

\* an empty keep step on A whose preTransition moved B has been handled: one
\* barrier on B is all the frame has emitted, the cache was not asked, and A
\* still has the tag it started with, not the final layout the step declares
C29_Witness ==
    /\ pc = "exec" /\ idx = 2
    /\ EmptyAllKeep(heap[steps[1]])
    /\ heap[steps[1]].framebuffer = "A"
    /\ Len(cmdlog) = 1
    /\ cmdlog[1].op = "vkCmdPipelineBarrier" /\ cmdlog[1].fb = "B"
    /\ colorLayout["A"] = recorded.layouts.color["A"]
    /\ colorLayout["A"] # heap[steps[1]].finalColorLayout
    /\ colorLayout["B"] = "SHADER_READ_ONLY_OPTIMAL"
    /\ Len(calls) = 1     \* the call CreateDeviceObjects makes

-----------------------------------------------------------------------------
(* Barriers a Render step emits *)

\* the execution loop is at a Render step
AtRender == PerformsStep /\ heap[steps[idx]].stepType = "RENDER"

\* the barriers of the iteration
EmittedBarriers == {k \in 1..Len(Emitted) : Emitted[k].op = "vkCmdPipelineBarrier"}

\* the driver-workaround condition for the step
WorkaroundHolds(s) == s.numDraws = 0 /\ s.color = "CLEAR" /\ driverIsMali

SameLayout(e) == e.old = e.new

-----------------------------------------------------------------------------
(* The intermediate GENERAL layout *)

\* the GetRenderPass calls of the iteration
CallsMade == SubSeq(calls', Len(calls) + 1, Len(calls'))

\* the barriers of the iteration that move an image to GENERAL
ToGeneral == {k \in EmittedBarriers : Emitted[k].new = "GENERAL"}

\* C31: a barrier to GENERAL is emitted only by a Render step with zero
\* draws and a clear color load action on the fingerprinted driver, on the
\* color image of its target; the pass of that step is then looked up with
\* previous color layout GENERAL, and no other lookup has that previous
\* layout; between step executions no color tag is GENERAL.
C31_GeneralOnlyInWorkaround ==
    /\ [](\A fb \in Framebuffers : colorLayout[fb] # "GENERAL")
    /\ [][PerformsStep =>
             LET s == heap[steps[idx]]
                 workaround == s.stepType = "RENDER" /\ s.framebuffer # NullFb /\ WorkaroundHolds(s)
             IN /\ \A k \in ToGeneral :
                      /\ workaround
                      /\ Emitted[k].fb = s.framebuffer /\ Emitted[k].aspect = "color"
                /\ workaround => Cardinality(ToGeneral) = 1 /\ Len(CallsMade) = 1
                /\ \A n \in 1..Len(CallsMade) :
                      CallsMade[n].key.prevColorLayout = "GENERAL" <=> workaround
          ]_vars

\* on the fingerprinted driver an empty clear step on A has run: the frame
\* holds a barrier of A to GENERAL followed by a pass looked up with previous
\* color layout GENERAL, and A is tagged with the step's final layout
C31_Witness ==
    /\ pc = "exec" /\ idx = 2
    /\ driverIsMali
    /\ heap[steps[1]].stepType = "RENDER" /\ heap[steps[1]].framebuffer = "A"
    /\ heap[steps[1]].numDraws = 0 /\ heap[steps[1]].color = "CLEAR"
    /\ \E k \in 1..Len(cmdlog) :
          /\ cmdlog[k].op = "vkCmdPipelineBarrier" /\ cmdlog[k].fb = "A"
          /\ cmdlog[k].new = "GENERAL"
    /\ calls[Len(calls)].key.prevColorLayout = "GENERAL"
    /\ colorLayout["A"] = heap[steps[1]].finalColorLayout

-----------------------------------------------------------------------------
(* Layouts handed to the copy and blit commands *)

\* the vkCmdCopyImage / vkCmdBlitImage calls of the iteration
TransfersIssued == {k \in 1..Len(Emitted) : Emitted[k].op \in {"vkCmdCopyImage", "vkCmdBlitImage"}}

\* C32: every copy or blit command of a Copy or Blit step is issued with
\* source layout TRANSFER_SRC_OPTIMAL and destination layout
\* TRANSFER_DST_OPTIMAL, one command per aspect group of the mask, also when
\* source and destination are the same framebuffer.
C32_TransferLayouts ==
    [][(PerformsStep /\ heap[steps[idx]].stepType \in {"COPY", "BLIT"}) =>
          LET s == heap[steps[idx]]
          IN /\ \A k \in TransfersIssued :
                   /\ Emitted[k].old = "TRANSFER_SRC_OPTIMAL"
                   /\ Emitted[k].new = "TRANSFER_DST_OPTIMAL"
             /\ {Emitted[k].aspect : k \in TransfersIssued} =
                   (IF HasColor(s.aspectMask) THEN {"color"} ELSE {})
                   \cup (IF HasDepthStencil(s.aspectMask) THEN {"depth"} ELSE {})
    ]_vars

-----------------------------------------------------------------------------
(* What a Copy or Blit step leaves alone *)

\* the entries of the iteration that name the image (fb, aspect), as the
\* image of a barrier or as an endpoint of a copy or blit
EntriesOn(fb, aspect) ==
    {k \in 1..Len(Emitted) :
        /\ Emitted[k].aspect = aspect
        /\ Emitted[k].fb = fb \/ Emitted[k].fb2 = fb}

\* C33: a Copy or Blit step with a color-only mask leaves every depth tag
\* unchanged and emits nothing for a depth image; one with a mask of depth
\* and / or stencil only leaves every color tag unchanged and emits nothing
\* for a color image; both leave the tags of every framebuffer other than
\* their two endpoints unchanged.
C33_TransferFrameCondition ==
    [][(PerformsStep /\ heap[steps[idx]].stepType \in {"COPY", "BLIT"}) =>
          LET s == heap[steps[idx]]
          IN /\ s.aspectMask = {"COLOR"} =>
                   /\ depthLayout' = depthLayout
                   /\ \A fb \in Framebuffers : EntriesOn(fb, "depth") = {}
             /\ (s.aspectMask # {} /\ "COLOR" \notin s.aspectMask) =>
                   /\ colorLayout' = colorLayout
                   /\ \A fb \in Framebuffers : EntriesOn(fb, "color") = {}
             /\ \A fb \in Framebuffers \ {s.src, s.dst} :
                   /\ colorLayout'[fb] = colorLayout[fb]
                   /\ depthLayout'[fb] = depthLayout[fb]
                   /\ EntriesOn(fb, "color") = {} /\ EntriesOn(fb, "depth") = {}
    ]_vars

\* a frame has run a color-only copy of A to B and a depth / stencil blit of
\* B to A: both color tags and both depth tags were moved, each by its own
\* step, and C has the tags it started with
C33_Witness ==
    /\ pc = "exec" /\ idx = 3
    /\ heap[steps[1]].stepType = "COPY" /\ heap[steps[1]].aspectMask = {"COLOR"}
    /\ heap[steps[1]].src = "A" /\ heap[steps[1]].dst = "B"
    /\ heap[steps[2]].stepType = "BLIT" /\ heap[steps[2]].aspectMask = {"DEPTH", "STENCIL"}
    /\ colorLayout["A"] = "TRANSFER_SRC_OPTIMAL" /\ colorLayout["B"] = "TRANSFER_DST_OPTIMAL"
    /\ depthLayout["B"] = "TRANSFER_SRC_OPTIMAL" /\ depthLayout["A"] = "TRANSFER_DST_OPTIMAL"
    /\ recorded.layouts.color["A"] = "COLOR_ATTACHMENT_OPTIMAL"
    /\ colorLayout["C"] = recorded.layouts.color["C"]
    /\ depthLayout["C"] = recorded.layouts.depth["C"]
    /\ cmdlog[Len(cmdlog)].op = "vkCmdBlitImage" /\ cmdlog[Len(cmdlog)].aspect = "depth"

-----------------------------------------------------------------------------
(* Frames of one Render step, over every short command list of pipeline     *)
(* binds, stencil settings and draws                                        *)

MaxCommands == 4

\* two pipelines; stencil settings that differ in one value or in all
ReplayAlphabet ==
    { Cmd("BIND_PIPELINE", 1, 0, 0),
      Cmd("BIND_PIPELINE", 2, 0, 0),
      Cmd("STENCIL", 255, 255, 1),
      Cmd("STENCIL", 255, 255, 2),
      Cmd("STENCIL", 0, 15, 0),
      Cmd("DRAW", 3, 0, 0) }

InitReplay ==
    \E cmds \in StepLists(ReplayAlphabet, MaxCommands) :
        InitWith(FrameOf(<<Render("A", KEEP3, cmds, << >>, "COLOR_ATTACHMENT_OPTIMAL")>>),
                 GameEnvironment, 0)

SpecReplay == InitReplay /\ [][NextFrame]_vars

-----------------------------------------------------------------------------
(* Elision of redundant pipeline binds and stencil settings *)

StencilOps == <<"vkCmdSetStencilWriteMask", "vkCmdSetStencilCompareMask", "vkCmdSetStencilReference">>

\* the three values of a recorded STENCIL command, in the order of StencilOps
StencilValues(c) == <<c.a, c.b, c.c>>

\* the last recorded command of a kind before position k (0: none)
LastBefore(cmds, k, kind) ==
    LET found == {j \in 1..(k - 1) : cmds[j].cmd = kind}
    IN IF found = {} THEN 0 ELSE SetMax(found)

\* the pipeline the recorded stream has bound before position k (0: none)
RecordedPipeline(cmds, k) ==
    IF LastBefore(cmds, k, "BIND_PIPELINE") = 0 THEN 0
    ELSE cmds[LastBefore(cmds, k, "BIND_PIPELINE")].a

\* the stencil values the recorded stream has set before position k (-1: none)
RecordedStencil(cmds, k) ==
    IF LastBefore(cmds, k, "STENCIL") = 0 THEN <<-1, -1, -1>>
    ELSE StencilValues(cmds[LastBefore(cmds, k, "STENCIL")])

\* the value the last entry of kind op before position p of a stream carries
InEffect(stream, p, op, none) ==
    LET found == {j \in 1..(p - 1) : stream[j].op = op}
    IN IF found = {} THEN none ELSE stream[SetMax(found)].n

\* a recorded bind that names another pipeline than the bind before it
ChangesPipeline(cmds, k) ==
    cmds[k].cmd = "BIND_PIPELINE" /\ cmds[k].a # RecordedPipeline(cmds, k)

\* the last bind before k that changes the pipeline (0: none)
LastChange(cmds, k) ==
    LET found == {j \in 1..(k - 1) : ChangesPipeline(cmds, j)}
    IN IF found = {} THEN 0 ELSE SetMax(found)

\* the stencil values set since the last change of pipeline before k
StencilSinceChange(cmds, k) ==
    IF LastBefore(cmds, k, "STENCIL") > LastChange(cmds, k)
    THEN RecordedStencil(cmds, k) ELSE <<-1, -1, -1>>

\* what the claim has the recorded command at k emit, as <<op, value>> pairs
ClaimedEmits(cmds, k) ==
    CASE cmds[k].cmd = "BIND_PIPELINE" ->
            IF ChangesPipeline(cmds, k) THEN << <<"vkCmdBindPipeline", cmds[k].a>> >> ELSE << >>
      [] cmds[k].cmd = "STENCIL" ->
            LET Part(n) == IF StencilValues(cmds[k])[n] # StencilSinceChange(cmds, k)[n]
                           THEN << <<StencilOps[n], StencilValues(cmds[k])[n]>> >> ELSE << >>
            IN Part(1) \o Part(2) \o Part(3)
      [] IsDraw(cmds[k]) -> << <<"vkCmdDraw", cmds[k].uid>> >>
      [] OTHER -> << >>

RECURSIVE ClaimedStream(_, _)
ClaimedStream(cmds, k) ==
    IF k > Len(cmds) THEN << >> ELSE ClaimedEmits(cmds, k) \o ClaimedStream(cmds, k + 1)

\* the commands emitted inside passes, as <<op, value>> pairs
PassStream ==
    LET Inside(e) == e.op \in {"vkCmdBindPipeline", "vkCmdDraw", "vkCmdDrawIndexed",
                               StencilOps[1], StencilOps[2], StencilOps[3]}
        inside == SelectSeq(cmdlog, Inside)
    IN [k \in 1..Len(inside) |-> <<inside[k].op, inside[k].n>>]

\* the recorded commands of the one Render step of the frame
Recorded1 == recorded.heap[1].commands

\* C34: when the Render step has been replayed, (1) at every emitted draw
\* the pipeline and the three stencil values last emitted before it are those
\* the recorded stream set last before that draw, and (2) the emitted stream
\* is the recorded one with a bind left out iff it names the pipeline of the
\* bind before it, and each stencil value left out iff it equals the value
\* set last since the last change of pipeline (so the first stencil command
\* after a change emits all three).
C34_ElisionTransparent ==
    (pc = "exec" /\ idx = 2 /\ Len(steps) = 1 /\ heap[steps[1]].stepType = "RENDER") =>
        /\ PassStream = ClaimedStream(Recorded1, 1)
        /\ \A p \in 1..Len(cmdlog) :
              cmdlog[p].op = "vkCmdDraw" =>
                 LET k == CHOOSE j \in 1..Len(Recorded1) : Recorded1[j].uid = cmdlog[p].n
                 IN /\ InEffect(cmdlog, p, "vkCmdBindPipeline", 0) = RecordedPipeline(Recorded1, k)
                    /\ \A n \in 1..3 :
                          InEffect(cmdlog, p, StencilOps[n], -1) = RecordedStencil(Recorded1, k)[n]

\* a list of MaxCommands commands with a bind that was left out and two
\* stencil commands in a row, the first emitting its three values and the
\* second only the one that differs
C34_Witness ==
    /\ pc = "exec" /\ idx = 2
    /\ Len(Recorded1) = MaxCommands
    /\ \E k \in 1..(Len(Recorded1) - 1) :
          /\ Recorded1[k].cmd = "STENCIL" /\ Recorded1[k + 1].cmd = "STENCIL"
          /\ Len(ClaimedEmits(Recorded1, k)) = 3
          /\ Len(ClaimedEmits(Recorded1, k + 1)) = 1
    /\ \E k \in 1..Len(Recorded1) :
          Recorded1[k].cmd = "BIND_PIPELINE" /\ ~ChangesPipeline(Recorded1, k)
    /\ Len(PassStream) = 5

-----------------------------------------------------------------------------
(* One TinySet under any sequence of insert calls *)

insert(t) ==
    /\ LET set == TinySetInsert(TheSet, t)
       IN /\ fastLookup_' = set.fast
          /\ fastCount' = set.count
          /\ slowLookup_' = set.slow
    /\ inserted' = inserted \cup {t}
    /\ UNCHANGED <<frameVars, layoutVars, cacheVars, readbackVars, copyVars,
                   hacksEnabled_, driverIsMali>>

InitTiny ==
    \E garbage \in Garbage :
        /\ InitRunner(FrameOf(<< >>), GameEnvironment, 0)
        /\ InitTinySet(garbage)

NextTiny == \E t \in TinyElements : insert(t)

SpecTiny == InitTiny /\ [][NextTiny]_vars

\* the elements a TinySet stores, inline array first
Stored(set) == [i \in 1..set.count |-> set.fast[i - 1]] \o set.slow.items

\* the longest sequence of inserts that builds the other set
MaxOther == MaxFastSize + 1

RECURSIVE Built(_, _)
\* the TinySet that the insert calls of a sequence build
Built(seq, k) ==
    IF k = 0 THEN TinySetConstructed([i \in 0..(MaxFastSize - 1) |-> 0])
    ELSE TinySetInsert(Built(seq, k - 1), seq[k])

\* C35: after any sequence of insert calls, contains(t) is true iff t was
\* inserted; no element is stored twice across the inline array and the
\* fallback vector, the inline array is full before the vector is used;
\* inserting an element that is present changes nothing; and
\* contains(otherSet) is true iff the two sets share an element.
C35_TinySetIsASet ==
    /\ \A t \in TinyElements : TinySetContains(TheSet, t) <=> t \in inserted
    /\ \A i, j \in 1..Len(Stored(TheSet)) : Stored(TheSet)[i] = Stored(TheSet)[j] => i = j
    /\ Len(Stored(TheSet)) = Cardinality(inserted)
    /\ slowLookup_.items # << >> => fastCount = MaxFastSize
    /\ \A t \in inserted : TinySetInsert(TheSet, t) = TheSet
    /\ \A seq \in StepLists(TinyElements, MaxOther) :
          TinySetContainsSet(TheSet, Built(seq, Len(seq)))
             <=> inserted \cap {seq[k] : k \in 1..Len(seq)} # {}

\* every element has been inserted: the inline array is full and the
\* fallback vector holds the others
C35_Witness ==
    /\ inserted = TinyElements
    /\ fastCount = MaxFastSize
    /\ slowLookup_.allocated
    /\ Len(slowLookup_.items) = Cardinality(TinyElements) - MaxFastSize

-----------------------------------------------------------------------------
(* From a pass handle back to its key *)

\* what the caller's key holds before the call: a key no call asks for
CallerKey == RPKey("DONT_CARE", "DONT_CARE", "DONT_CARE", "UNDEFINED", "UNDEFINED", "UNDEFINED")

\* the handles the cache holds
CachedHandles == {renderPasses_[key] : key \in DOMAIN renderPasses_}

\* C36: for every handle GetRenderPass returned for a key since the cache was
\* last emptied, GetRenderPassKey finds it and writes that key; for every
\* other handle (null, the backbuffer pass, passes queued for deletion) it
\* returns false and leaves the caller's key as it was.
C36_KeyHandleRoundTrip ==
    /\ \A n \in 1..Len(calls) :
          GetRenderPassKey(renderPasses_, calls[n].handle, CallerKey)
             = {[found |-> TRUE, outKey |-> calls[n].key]}
    /\ \A h \in (0..(MaxPasses + 1)) \ CachedHandles :
          GetRenderPassKey(renderPasses_, h, CallerKey)
             = {[found |-> FALSE, outKey |-> CallerKey]}

\* after a DestroyDeviceObjects and a new CreateDeviceObjects the cache
\* holds three passes for three keys, and the handles of the passes queued
\* for deletion are in it no more
C36_Witness ==
    /\ Cardinality(CachedHandles) = 3
    /\ Cardinality({calls[n].key : n \in 1..Len(calls)}) = 3
    /\ deletedPasses # << >>
    /\ \A k \in 1..Len(deletedPasses) : deletedPasses[k] \notin CachedHandles
    /\ backbufferRenderPass_ \notin CachedHandles

-----------------------------------------------------------------------------
(* The precached framebuffer pass *)

\* GetFramebufferRenderPass
GetFramebufferRenderPass == framebufferRenderPass_

\* the pass handles queued for deletion so far
QueuedForDeletion == {deletedPasses[k] : k \in 1..Len(deletedPasses)}

\* C37: GetFramebufferRenderPass returns null or the handle the cache holds
\* for the key (clear, clear, clear, color-attachment,
\* depth-stencil-attachment, color-attachment), never a pass that was queued
\* for deletion.
C37_FramebufferPassIsCached ==
    /\ GetFramebufferRenderPass = 0
          \/ CacheGet(renderPasses_, FramebufferPassKey) = GetFramebufferRenderPass
    /\ GetFramebufferRenderPass \notin QueuedForDeletion

-----------------------------------------------------------------------------
(* The staging buffer over several frames and device losses *)

MaxBufEvents == 6
MaxStagingLog == 3
MaxStagingPasses == 4

StagingPalette == {Readback("A", {"COLOR"}), ReadbackImage}

InitStaging ==
    \E list \in StepLists(StagingPalette, 1) :
        InitWith(FrameOf(list), [layouts |-> UsedLayouts, mali |-> FALSE], 0)

\* The render manager hands the next frame's step list to RunSteps: the
\* runner's members stay as the last frame left them.
SubmitFrame(list) ==
    /\ pc = "done"
    /\ Len(bufEvents) < MaxBufEvents
    /\ Len(cmdlog) <= MaxStagingLog
    /\ LET frame == FrameOf(list)
       IN /\ steps' = frame.steps
          /\ heap' = frame.heap
          /\ recorded' = [steps |-> frame.steps, heap |-> frame.heap,
                          layouts |-> [color |-> colorLayout, depth |-> depthLayout]]
          /\ prev' = frame
          /\ emitted' = [id \in DOMAIN frame.heap |-> 0]
          /\ deleted' = [id \in DOMAIN frame.heap |-> 0]
    /\ pc' = "idle"
    /\ idx' = 0
    /\ UNCHANGED <<layoutVars, cacheVars, readbackVars, copyVars, hacksEnabled_, driverIsMali,
                   tinyVars>>

NextStaging ==
    \/ CreateDeviceObjects /\ Len(passObjs) + 2 <= MaxStagingPasses
    \/ DestroyDeviceObjects
    \/ RunSteps
    \/ \E list \in StepLists(StagingPalette, 1) : SubmitFrame(list)
    \/ \E mapped \in StagedPatterns, mapOk \in BOOLEAN :
          CopyReadbackBuffer(1, 1, "R8G8B8A8_UNORM", "R8G8B8A8_UNORM", 1, mapped, mapOk, TRUE, TRUE)

SpecStaging == InitStaging /\ [][NextStaging]_vars

\* the non-null handles that events has queued for deletion
Queued(events, what) ==
    {events[k].handle : k \in {j \in 1..Len(events) : events[j].what = what}} \ {0}

\* how often events queues handle for deletion
TimesQueued(events, what, handle) ==
    Cardinality({k \in 1..Len(events) : events[k].what = what /\ events[k].handle = handle})

\* the entries that the step appends to a log
Appended(old, new) == {new[k] : k \in (Len(old) + 1)..Len(new)}

\* C38: over any sequence of frames with readbacks, DestroyDeviceObjects and
\* CreateDeviceObjects, every staging buffer and every staging memory object
\* is queued for deletion at most once, and once queued it is neither the
\* destination of an image-to-buffer copy nor mapped by CopyReadbackBuffer.
C38_StagingQueuedOnceAndNotReused ==
    /\ [](/\ \A h \in Queued(bufEvents, "QueueDeleteBuffer") :
                TimesQueued(bufEvents, "QueueDeleteBuffer", h) <= 1
          /\ \A h \in Queued(bufEvents, "QueueDeleteDeviceMemory") :
                TimesQueued(bufEvents, "QueueDeleteDeviceMemory", h) <= 1)
    /\ [][/\ \A e \in Appended(cmdlog, cmdlog') :
                e.op = "vkCmdCopyImageToBuffer" => e.n \notin Queued(bufEvents', "QueueDeleteBuffer")
          /\ \A e \in Appended(copyLog, copyLog') :
                e.what = "vkMapMemory" => e.handle \notin Queued(bufEvents', "QueueDeleteDeviceMemory")]_vars

-----------------------------------------------------------------------------
(* The destination of the image-to-buffer copy *)

\* C39: whenever a Readback or ReadbackImage step emits its image-to-buffer
\* copy, the destination is the staging buffer, its handle is not null, and
\* its capacity is at least 4 * width * height of the step's rectangle, also
\* when the allocation of the staging memory has failed.
C39_CopyIntoLiveStagingBuffer ==
    [][PerformsStep =>
          \A e \in Appended(cmdlog, cmdlog') :
             e.op = "vkCmdCopyImageToBuffer" =>
                /\ e.n = readbackBuffer_'
                /\ e.n # 0
                /\ readbackBufferSize_' >= ReadbackBytes(heap[steps[idx]])]_vars

-----------------------------------------------------------------------------
(* Final-layout normalization *)

\* a render step to an offscreen framebuffer
OffscreenRender(s) == s.stepType = "RENDER" /\ s.framebuffer # NullFb

\* the steps recorded as offscreen renders without a final colour layout
RecordedUndefined ==
    {id \in DOMAIN recorded.heap :
        /\ \E j \in 1..Len(recorded.steps) : recorded.steps[j] = id
        /\ OffscreenRender(recorded.heap[id])
        /\ recorded.heap[id].finalColorLayout = "UNDEFINED"}

\* C40: before any rewrite or execution every Render step to an offscreen
\* framebuffer whose declared final colour layout is UNDEFINED is given
\* COLOR_ATTACHMENT_OPTIMAL; so, whatever the step list and the hack mask,
\* the assertion of PerformBindFramebufferAsRenderTarget on the final layout
\* never fails and no Render step sets a colour tag to UNDEFINED.
C40_FinalLayoutNormalized ==
    /\ [](/\ pc = "mgs" =>
                \A id \in RecordedUndefined : heap[id].finalColorLayout = "COLOR_ATTACHMENT_OPTIMAL"
          /\ pc # "idle" =>
                \A j \in 1..Len(steps) :
                   OffscreenRender(heap[steps[j]]) => heap[steps[j]].finalColorLayout # "UNDEFINED"
          /\ "PerformBindRT: finalColorLayout" \notin asserts)
    /\ [][(PerformsStep /\ heap[steps[idx]].stepType = "RENDER") =>
             \A fb \in Framebuffers :
                colorLayout'[fb] = "UNDEFINED" => colorLayout[fb] = "UNDEFINED"]_vars

\* a hack is enabled, and a step recorded without a final layout has drawn
\* to its target and left it tagged COLOR_ATTACHMENT_OPTIMAL
C40_Witness ==
    /\ pc = "exec" /\ idx = 2 /\ hacksEnabled_ # 0
    /\ steps[1] \in RecordedUndefined
    /\ emitted[steps[1]] = 1
    /\ heap[steps[1]].numDraws > 0
    /\ colorLayout[heap[steps[1]].framebuffer] = "COLOR_ATTACHMENT_OPTIMAL"
    /\ recorded.layouts.color[heap[steps[1]].framebuffer] # "COLOR_ATTACHMENT_OPTIMAL"

=============================================================================
